---- MODULE Spec2Model ----
(***************************************************************************)
(* A state-machine model of the chess rules engine: the GameBoard (a map   *)
(* of squares with place / remove / check / clone), the bishop move        *)
(* generator, the attack detector, the legal-move filter and the game      *)
(* state classifier.                                                       *)
(***************************************************************************)
EXTENDS Integers, Sequences, FiniteSets, TLC

VARIABLES
    heap,          \* storage of the square maps: handle -> (SquareId -> occupant)
    board,         \* the GameBoard of the game: [squares (a handle), width, height]
    cloned,        \* a clone of the board, or NoBoard
    current_turn,  \* Game.current_turn
    fifty,         \* the value of game.can_trigger_fifty_move_rule()
    moves,         \* Game.moves: the moves applied so far
    turn_number,   \* ChessGame.turn_number
    rights,        \* the castling flags of the Game
    op,            \* the last operation called, with its arguments
    ret            \* what the last operation returned

vars == <<heap, board, cloned, current_turn, fifty, moves, turn_number, rights, op, ret>>

----------------------------------------------------------------------------
(* Bounds of the model. *)

\* Boards of the board specification are MaxDim x MaxDim.
MaxDim == 2
\* Coordinates passed to the board operations range over 0..MaxCoord.
MaxCoord == 2
\* The board specification places at most MaxBoardPieces pieces on a board.
MaxBoardPieces == 2
\* Boards of the bishop specification are BishopDim x BishopDim.
BishopDim == 4
\* The bishop specification places at most MaxBishopPieces pieces.
MaxBishopPieces == 3
\* Boards of the game specification are GameDim x GameDim.
GameDim == 3
\* The game specification places at most MaxGamePieces pieces.
MaxGamePieces == 3
\* The board of the material specification is MaterialWidth x 1.
MaterialWidth == 4
\* The opening specification applies at most MaxOpeningPlies moves.
MaxOpeningPlies == 2
\* The width and height of the boards of the pawn endings.
PawnWidth == 2
PawnHeight == 5
\* The number of moves applied in a game on a small board.
MaxPlayPlies == 3
\* The width and height of the boards of the rook endings.
RookWidth == 6
RookHeight == 3
\* The width and height of the boards the castle evaluators are called on,
\* and the largest number of pieces on them.
CastleWidth == 5
CastleHeight == 2
MaxCastlePieces == 3
\* The sides of the square boards the attack detector is called on, and the
\* largest number of pieces on them.
CheckDims == {2, 3}
MaxCheckPieces == 3
\* The width in bits of a usize in the square-name functions.
UsizeBits == 15
\* The largest length of the names handed to the parser.
MaxNameLen == 4
\* The largest width and height of the boards built from a short diagram,
\* and the largest length of a short diagram.
MaxDiagramDim == 2
MaxDiagramLen == 4
\* The width and height of the boards the attack detector is called on with
\* a last move, and the largest number of pieces on them.
StaleWidth == 2
StaleHeight == 4
MaxStalePieces == 3

----------------------------------------------------------------------------
(* Pieces. *)

White == "White"
Black == "Black"
Colors == {White, Black}

Pawn == "Pawn"
Knight == "Knight"
Bishop == "Bishop"
Rook == "Rook"
Queen == "Queen"
King == "King"
PieceTypes == {Pawn, Knight, Bishop, Rook, Queen, King}

\* Option::None for an Option<ChessPiece>.
None == [color |-> "None", piece_type |-> "None"]

ChessPiece(color, piece_type) == [color |-> color, piece_type |-> piece_type]

AllPieces == {ChessPiece(c, t) : c \in Colors, t \in PieceTypes}

opposite_color(color) == IF color = White THEN Black ELSE White

----------------------------------------------------------------------------
(* The GameBoard.  A GameBoard owns a HashMap from SquareId to Square; the *)
(* map lives in the heap and the GameBoard holds its handle.               *)

Handles == {1, 2}

NoMap == [sq \in {} |-> None]

NoBoard == [squares |-> 0, width |-> 0, height |-> 0]

\* GameBoard::generate_board: one empty Square per coordinate.
generate_board(width, height) ==
    [sq \in (0 .. width - 1) \X (0 .. height - 1) |-> None]

\* GameBoard::build: generate_board asserts width > 0 && height > 0.
build(width, height) ==
    IF width > 0 /\ height > 0
        THEN [panic |-> FALSE, map |-> generate_board(width, height)]
        ELSE [panic |-> TRUE, map |-> NoMap]

\* board_width and board_height of build_chess_board.
ChessBoardDim == 8

\* The pieces of a back rank from column 0 on, as build_chess_board and
\* create_board_with_starting_position place them.
back_rank == <<Rook, Knight, Bishop, Queen, King, Bishop, Knight, Rook>>

\* GameBoard::build_chess_board: the squares of the standard layout.
build_chess_board ==
    [sq \in DOMAIN generate_board(ChessBoardDim, ChessBoardDim) |->
        CASE sq[2] = 0 -> ChessPiece(White, back_rank[sq[1] + 1])
          [] sq[2] = 1 -> ChessPiece(White, Pawn)
          [] sq[2] = 6 -> ChessPiece(Black, Pawn)
          [] sq[2] = 7 -> ChessPiece(Black, back_rank[sq[1] + 1])
          [] OTHER -> None]

\* ChessGame::create_board_with_starting_position: the pieces placed one by
\* one on a new ChessBoard.
create_board_with_starting_position ==
    [sq \in DOMAIN generate_board(ChessBoardDim, ChessBoardDim) |->
        CASE sq[2] = 1 -> ChessPiece(White, Pawn)
          [] sq[2] = 6 -> ChessPiece(Black, Pawn)
          [] sq \in {<<0, 0>>, <<7, 0>>} -> ChessPiece(White, Rook)
          [] sq \in {<<0, 7>>, <<7, 7>>} -> ChessPiece(Black, Rook)
          [] sq \in {<<1, 0>>, <<6, 0>>} -> ChessPiece(White, Knight)
          [] sq \in {<<1, 7>>, <<6, 7>>} -> ChessPiece(Black, Knight)
          [] sq \in {<<2, 0>>, <<5, 0>>} -> ChessPiece(White, Bishop)
          [] sq \in {<<2, 7>>, <<5, 7>>} -> ChessPiece(Black, Bishop)
          [] sq = <<3, 0>> -> ChessPiece(White, Queen)
          [] sq = <<3, 7>> -> ChessPiece(Black, Queen)
          [] sq = <<4, 0>> -> ChessPiece(White, King)
          [] sq = <<4, 7>> -> ChessPiece(Black, King)
          [] OTHER -> None]

\* The board as a value: the square map itself with the dimensions.
Snapshot(h, b) ==
    [squares |-> h[b.squares], width |-> b.width, height |-> b.height]

\* A result that is either a panic or a value.
Panic == [panic |-> TRUE, val |-> None]
Ok(v) == [panic |-> FALSE, val |-> v]

\* GameBoard::check_space: squares.get(&id).unwrap().get_piece().
check_space(bv, col, row) ==
    IF <<col, row>> \in DOMAIN bv.squares
        THEN Ok(bv.squares[<<col, row>>])
        ELSE Panic

\* A place_piece that inserts the square when the map does not hold it.
place_piece_insert(m, piece, col, row) ==
    [panic |-> FALSE,
     map |-> [sq \in DOMAIN m \cup {<<col, row>>} |->
                 IF sq = <<col, row>> THEN piece ELSE m[sq]]]

\* GameBoard::place_piece on the map m: squares.get_mut(&id).unwrap().place_piece(piece).
\* The result is the map after the call, or a panic with the map as it was.
place_piece(m, piece, col, row) ==
    IF <<col, row>> \in DOMAIN m
        THEN [panic |-> FALSE, map |-> [m EXCEPT ![<<col, row>>] = piece]]
        ELSE [panic |-> TRUE, map |-> m]

\* A remove_piece that reads the occupant and leaves it on the square.
remove_piece_peek(m, col, row) ==
    IF <<col, row>> \in DOMAIN m
        THEN [panic |-> FALSE, val |-> m[<<col, row>>], map |-> m]
        ELSE [panic |-> FALSE, val |-> None, map |-> m]

\* GameBoard::remove_piece on the map m: squares.get_mut(&id)?.clear_piece().
\* The ? operator returns None for an id that is not in the map.
remove_piece(m, col, row) ==
    IF <<col, row>> \in DOMAIN m
        THEN [panic |-> FALSE, val |-> m[<<col, row>>],
              map |-> [m EXCEPT ![<<col, row>>] = None]]
        ELSE [panic |-> FALSE, val |-> None, map |-> m]

\* A clone that shares the square map of the original instead of copying it.
clone_shared(h, b, fresh) ==
    [heap |-> h,
     board |-> [squares |-> b.squares, height |-> b.height, width |-> b.width]]

\* impl Clone for GameBoard: squares.clone() is a new map with the same content.
clone(h, b, fresh) ==
    [heap |-> [h EXCEPT ![fresh] = h[b.squares]],
     board |-> [squares |-> fresh, height |-> b.height, width |-> b.width]]

\* The number of occupied squares of a square map.
PieceCount(m) == Cardinality({sq \in DOMAIN m : m[sq] # None})

\* The match of from_string: the piece a character stands for, by its code
\* point, or None.
glyph(char) ==
    CASE char = 9817 -> ChessPiece(White, Pawn)
      [] char = 9814 -> ChessPiece(White, Rook)
      [] char = 9816 -> ChessPiece(White, Knight)
      [] char = 9815 -> ChessPiece(White, Bishop)
      [] char = 9813 -> ChessPiece(White, Queen)
      [] char = 9812 -> ChessPiece(White, King)
      [] char = 9823 -> ChessPiece(Black, Pawn)
      [] char = 9820 -> ChessPiece(Black, Rook)
      [] char = 9822 -> ChessPiece(Black, Knight)
      [] char = 9821 -> ChessPiece(Black, Bishop)
      [] char = 9819 -> ChessPiece(Black, Queen)
      [] char = 9818 -> ChessPiece(Black, King)
      [] OTHER -> None

\* A character other than the line feed.
not_newline(char) == char # 10

\* isize::unsigned_abs.
unsigned_abs(x) == IF x < 0 THEN 0 - x ELSE x

\* The square from_string computes for the character at an index.
square_of_index(width, height, index) ==
    <<index % width, unsigned_abs((index \div width) - (height - 1))>>

\* A from_string that counts the rows from the first line of the text.
from_string_rows_from_top(width, height, s) ==
    LET chars == SelectSeq(s, not_newline) IN
        IF Len(chars) # width * height
            THEN [panic |-> FALSE, status |-> "Err", map |-> NoMap]
        ELSE IF build(width, height).panic
            THEN [panic |-> TRUE, status |-> "None", map |-> NoMap]
        ELSE [panic |-> FALSE, status |-> "Ok",
              map |-> [sq \in DOMAIN generate_board(width, height) |->
                          glyph(chars[sq[2] * width + sq[1] + 1])]]

\* GameBoard::from_string: the line feeds are removed, a text whose number
\* of characters is not width * height is an Err, the board is built and
\* the piece of each character in turn is placed on the square of its index.
from_string(width, height, s) ==
    LET chars == SelectSeq(s, not_newline) IN
        IF Len(chars) # width * height
            THEN [panic |-> FALSE, status |-> "Err", map |-> NoMap]
        ELSE LET built == build(width, height)
                 placed == {i \in 0 .. Len(chars) - 1 : glyph(chars[i + 1]) # None}
                 on(sq) == {i \in placed : square_of_index(width, height, i) = sq}
                 last(S) == CHOOSE i \in S : \A j \in S : j <= i
             IN IF built.panic
                    THEN [panic |-> TRUE, status |-> "None", map |-> NoMap]
                ELSE IF \E i \in placed :
                            square_of_index(width, height, i) \notin DOMAIN built.map
                    THEN [panic |-> TRUE, status |-> "None", map |-> NoMap]
                ELSE [panic |-> FALSE, status |-> "Ok",
                      map |-> [sq \in DOMAIN built.map |->
                                  IF on(sq) = {} THEN None
                                  ELSE glyph(chars[last(on(sq)) + 1])]]

----------------------------------------------------------------------------
(* Moves. *)

NoPos == <<-1, -1>>

\* ChessMoveType::Move of the bishop generator.
MoveOf(original_position, new_position, piece, taken_piece, promotion) ==
    [kind |-> "Move", original_position |-> original_position,
     new_position |-> new_position, piece |-> piece,
     taken_piece |-> taken_piece, promotion |-> promotion,
     taken_position |-> NoPos]

----------------------------------------------------------------------------
(* The bishop generator. *)

directions == << <<1, 1>>, <<1, -1>>, <<-1, 1>>, <<-1, -1>> >>

\* A walk that does not stop at a friendly piece: it skips it and goes on.
RECURSIVE bishop_walk_through(_, _, _, _, _, _, _)
bishop_walk_through(color, position, bv, dir, x, y, acc) ==
    IF ~(x >= 0 /\ y >= 0 /\ x < bv.width /\ y < bv.height)
        THEN acc
        ELSE LET piece == bv.squares[<<x, y>>] IN
            IF piece # None
                THEN IF piece.color # color
                    THEN bishop_walk_through(color, position, bv, dir,
                             x + dir[1], y + dir[2],
                             Append(acc, MoveOf(position, <<x, y>>,
                                         ChessPiece(color, Bishop), piece, "None")))
                    ELSE bishop_walk_through(color, position, bv, dir,
                             x + dir[1], y + dir[2], acc)
                ELSE bishop_walk_through(color, position, bv, dir,
                         x + dir[1], y + dir[2],
                         Append(acc, MoveOf(position, <<x, y>>,
                                     ChessPiece(color, Bishop), None, "None")))

\* The while loop of possible_moves for one direction, from (x, y) on: an
\* empty square is pushed; an enemy piece is pushed as a Move with
\* taken_piece and the walk goes on; a friendly piece breaks the loop.
RECURSIVE bishop_walk(_, _, _, _, _, _, _)
bishop_walk(color, position, bv, dir, x, y, acc) ==
    IF ~(x >= 0 /\ y >= 0 /\ x < bv.width /\ y < bv.height)
        THEN acc
        ELSE LET piece == bv.squares[<<x, y>>] IN
            IF piece # None
                THEN IF piece.color # color
                    THEN bishop_walk(color, position, bv, dir,
                             x + dir[1], y + dir[2],
                             Append(acc, MoveOf(position, <<x, y>>,
                                         ChessPiece(color, Bishop), piece, "None")))
                    ELSE acc
                ELSE bishop_walk(color, position, bv, dir,
                         x + dir[1], y + dir[2],
                         Append(acc, MoveOf(position, <<x, y>>,
                                     ChessPiece(color, Bishop), None, "None")))

\* The for loop of possible_moves over the four directions, from the i-th on.
RECURSIVE bishop_directions(_, _, _, _, _)
bishop_directions(color, position, bv, i, acc) ==
    IF i > Len(directions)
        THEN acc
        ELSE bishop_directions(color, position, bv, i + 1,
                 bishop_walk(color, position, bv, directions[i],
                     position[1] + directions[i][1],
                     position[2] + directions[i][2], acc))

\* bishop::possible_moves.
possible_moves(color, position, bv) ==
    bishop_directions(color, position, bv, 1, <<>>)

----------------------------------------------------------------------------
(* The other move variants and the other generators. *)

NoMove == [kind |-> "None", original_position |-> NoPos, new_position |-> NoPos,
           piece |-> None, taken_piece |-> None, promotion |-> "None",
           taken_position |-> NoPos]

\* ChessMoveType::Move of the analyser: origin, destination and piece.
QuietOf(original_position, new_position, piece, promotion) ==
    [kind |-> "Move", original_position |-> original_position,
     new_position |-> new_position, piece |-> piece,
     taken_piece |-> None, promotion |-> promotion, taken_position |-> NoPos]

\* ChessMoveType::Take: the captured piece is carried explicitly.
TakeOf(original_position, new_position, piece, taken_piece, promotion) ==
    [kind |-> "Take", original_position |-> original_position,
     new_position |-> new_position, piece |-> piece,
     taken_piece |-> taken_piece, promotion |-> promotion,
     taken_position |-> new_position]

\* ChessMoveType::EnPassant: the captured pawn stands beside the destination.
EnPassantOf(original_position, new_position, piece, taken_piece, taken_position) ==
    [kind |-> "EnPassant", original_position |-> original_position,
     new_position |-> new_position, piece |-> piece,
     taken_piece |-> taken_piece, promotion |-> "None",
     taken_position |-> taken_position]

OnBoard(bv, x, y) == x >= 0 /\ y >= 0 /\ x < bv.width /\ y < bv.height

\* A sliding walk in one direction: an empty square is a Move, the first
\* enemy piece is a Take and ends the walk, a friendly piece ends the walk.
RECURSIVE slide(_, _, _, _, _, _, _)
slide(piece, position, bv, dir, x, y, acc) ==
    IF ~OnBoard(bv, x, y)
        THEN acc
        ELSE LET found == bv.squares[<<x, y>>] IN
            IF found = None
                THEN slide(piece, position, bv, dir, x + dir[1], y + dir[2],
                         Append(acc, QuietOf(position, <<x, y>>, piece, "None")))
                ELSE IF found.color # piece.color
                    THEN Append(acc, TakeOf(position, <<x, y>>, piece, found, "None"))
                    ELSE acc

RECURSIVE slide_directions(_, _, _, _, _, _)
slide_directions(piece, position, bv, dirs, i, acc) ==
    IF i > Len(dirs)
        THEN acc
        ELSE slide_directions(piece, position, bv, dirs, i + 1,
                 slide(piece, position, bv, dirs[i],
                     position[1] + dirs[i][1], position[2] + dirs[i][2], acc))

rook_directions == << <<1, 0>>, <<-1, 0>>, <<0, 1>>, <<0, -1>> >>

rook_moves(piece, position, bv) ==
    slide_directions(piece, position, bv, rook_directions, 1, <<>>)

queen_moves(piece, position, bv) ==
    slide_directions(piece, position, bv, rook_directions \o directions, 1, <<>>)

\* A fixed set of jumps: each landing square that is on the board and not
\* held by a friendly piece is a candidate.
RECURSIVE jumps(_, _, _, _, _, _)
jumps(piece, position, bv, offsets, i, acc) ==
    IF i > Len(offsets)
        THEN acc
        ELSE LET x == position[1] + offsets[i][1]
                 y == position[2] + offsets[i][2]
             IN jumps(piece, position, bv, offsets, i + 1,
                    IF ~OnBoard(bv, x, y)
                        THEN acc
                        ELSE LET found == bv.squares[<<x, y>>] IN
                            IF found = None
                                THEN Append(acc, QuietOf(position, <<x, y>>, piece, "None"))
                                ELSE IF found.color # piece.color
                                    THEN Append(acc, TakeOf(position, <<x, y>>, piece,
                                                     found, "None"))
                                    ELSE acc)

knight_offsets == << <<1, 2>>, <<2, 1>>, <<2, -1>>, <<1, -2>>,
                     <<-1, -2>>, <<-2, -1>>, <<-2, 1>>, <<-1, 2>> >>

king_offsets == << <<1, 0>>, <<1, 1>>, <<0, 1>>, <<-1, 1>>,
                   <<-1, 0>>, <<-1, -1>>, <<0, -1>>, <<1, -1>> >>

knight_moves(piece, position, bv) ==
    jumps(piece, position, bv, knight_offsets, 1, <<>>)

king_moves(piece, position, bv) ==
    jumps(piece, position, bv, king_offsets, 1, <<>>)

\* The pawn: one candidate per promotion piece type on the farthest rank.
promotion_types == <<Knight, Bishop, Rook, Queen>>

pawn_forward(color) == IF color = White THEN 1 ELSE -1

pawn_start_row(color, bv) == IF color = White THEN 1 ELSE bv.height - 2

pawn_last_row(color, bv) == IF color = White THEN bv.height - 1 ELSE 0

pawn_advance(piece, position, to, bv) ==
    IF to[2] = pawn_last_row(piece.color, bv)
        THEN [i \in 1 .. Len(promotion_types) |->
                 QuietOf(position, to, piece, promotion_types[i])]
        ELSE << QuietOf(position, to, piece, "None") >>

pawn_take(piece, position, to, found, bv) ==
    IF to[2] = pawn_last_row(piece.color, bv)
        THEN [i \in 1 .. Len(promotion_types) |->
                 TakeOf(position, to, piece, found, promotion_types[i])]
        ELSE << TakeOf(position, to, piece, found, "None") >>

pawn_capture(piece, position, dx, bv, last_move) ==
    LET x == position[1] + dx
        y == position[2] + pawn_forward(piece.color)
    IN IF ~OnBoard(bv, x, y)
        THEN <<>>
        ELSE LET found == bv.squares[<<x, y>>] IN
            IF found # None /\ found.color # piece.color
                THEN pawn_take(piece, position, <<x, y>>, found, bv)
                ELSE IF /\ found = None
                        /\ last_move.kind = "Move"
                        /\ last_move.piece = ChessPiece(opposite_color(piece.color), Pawn)
                        /\ last_move.new_position = <<x, position[2]>>
                        /\ last_move.original_position =
                               <<x, position[2] + 2 * pawn_forward(piece.color)>>
                    THEN << EnPassantOf(position, <<x, y>>, piece,
                                last_move.piece, last_move.new_position) >>
                    ELSE <<>>

pawn_moves(piece, position, bv, last_move) ==
    LET f == pawn_forward(piece.color)
        one == <<position[1], position[2] + f>>
        two == <<position[1], position[2] + 2 * f>>
        free(sq) == OnBoard(bv, sq[1], sq[2]) /\ bv.squares[sq] = None
    IN (IF free(one) THEN pawn_advance(piece, position, one, bv) ELSE <<>>)
       \o (IF position[2] = pawn_start_row(piece.color, bv) /\ free(one) /\ free(two)
              THEN pawn_advance(piece, position, two, bv) ELSE <<>>)
       \o pawn_capture(piece, position, -1, bv, last_move)
       \o pawn_capture(piece, position, 1, bv, last_move)

\* ChessPiece::get_legal_moves: the pseudo-legal moves of the piece.
get_legal_moves(piece, col, row, bv, last_move) ==
    CASE piece.piece_type = Bishop -> possible_moves(piece.color, <<col, row>>, bv)
      [] piece.piece_type = Rook -> rook_moves(piece, <<col, row>>, bv)
      [] piece.piece_type = Queen -> queen_moves(piece, <<col, row>>, bv)
      [] piece.piece_type = Knight -> knight_moves(piece, <<col, row>>, bv)
      [] piece.piece_type = King -> king_moves(piece, <<col, row>>, bv)
      [] piece.piece_type = Pawn -> pawn_moves(piece, <<col, row>>, bv, last_move)

\* ChessMoveType::make_move: the move applies itself to the board.
make_move(m, bv) ==
    LET placed == IF m.promotion = "None"
                      THEN m.piece
                      ELSE ChessPiece(m.piece.color, m.promotion)
        cleared == IF m.kind = "EnPassant"
                       THEN [bv.squares EXCEPT ![m.taken_position] = None]
                       ELSE bv.squares
    IN [bv EXCEPT !.squares =
           [cleared EXCEPT ![m.original_position] = None, ![m.new_position] = placed]]

----------------------------------------------------------------------------
(* The analyser. *)

\* The squares in the order of the loops: for col in 0..width, for row in 0..height.
SquareAt(bv, i) == <<(i - 1) \div bv.height, (i - 1) % bv.height>>

\* A detector that takes the Black pieces for the attackers of either colour.
is_color_in_check_black_attacks(bv, color, last_move) ==
    \E sq \in DOMAIN bv.squares :
        LET piece == check_space(bv, sq[1], sq[2]).val IN
            /\ piece # None
            /\ piece.color = Black
            /\ LET generated == get_legal_moves(piece, sq[1], sq[2], bv, last_move) IN
                   \E i \in 1 .. Len(generated) :
                       /\ generated[i].kind = "Take"
                       /\ generated[i].taken_piece.piece_type = King
                       /\ generated[i].taken_piece.color = color

\* A detector that leaves out the piece standing where the last move ended.
is_color_in_check_but_last_mover(bv, color, last_move) ==
    \E sq \in DOMAIN bv.squares :
        LET piece == check_space(bv, sq[1], sq[2]).val IN
            /\ piece # None
            /\ piece.color = opposite_color(color)
            /\ sq # last_move.new_position
            /\ LET generated == get_legal_moves(piece, sq[1], sq[2], bv, last_move) IN
                   \E i \in 1 .. Len(generated) :
                       /\ generated[i].kind = "Take"
                       /\ generated[i].taken_piece.piece_type = King
                       /\ generated[i].taken_piece.color = color

\* game_analyser::is_color_in_check: some piece of the opposite colour has
\* a Take whose taken piece is the King of the colour.
is_color_in_check(bv, color, last_move) ==
    \E sq \in DOMAIN bv.squares :
        LET piece == check_space(bv, sq[1], sq[2]).val IN
            /\ piece # None
            /\ piece.color = opposite_color(color)
            /\ LET generated == get_legal_moves(piece, sq[1], sq[2], bv, last_move) IN
                   \E i \in 1 .. Len(generated) :
                       /\ generated[i].kind = "Take"
                       /\ generated[i].taken_piece.piece_type = King
                       /\ generated[i].taken_piece.color = color

\* The legality test of get_all_moves for one candidate.
keeps_king_safe(m, bv, current, last_move) ==
    ~is_color_in_check(make_move(m, bv), current, last_move)

\* An inner loop that does not test the colour of the piece found.
RECURSIVE get_all_moves_rows_any_color(_, _, _, _, _)
get_all_moves_rows_any_color(bv, current, last_move, col, row) ==
    IF row >= bv.height
        THEN <<>>
        ELSE LET piece == check_space(bv, col, row).val IN
            (IF piece # None
                 THEN SelectSeq(get_legal_moves(piece, col, row, bv, last_move),
                                LAMBDA m : keeps_king_safe(m, bv, current, last_move))
                 ELSE <<>>)
            \o get_all_moves_rows_any_color(bv, current, last_move, col, row + 1)

\* The inner loop of get_all_moves: for row in 0..height, from row on.
RECURSIVE get_all_moves_rows(_, _, _, _, _)
get_all_moves_rows(bv, current, last_move, col, row) ==
    IF row >= bv.height
        THEN <<>>
        ELSE LET piece == check_space(bv, col, row).val IN
            (IF piece # None /\ piece.color = current
                 THEN SelectSeq(get_legal_moves(piece, col, row, bv, last_move),
                                LAMBDA m : keeps_king_safe(m, bv, current, last_move))
                 ELSE <<>>)
            \o get_all_moves_rows(bv, current, last_move, col, row + 1)

\* The outer loop of get_all_moves: for col in 0..width, from col on.
RECURSIVE get_all_moves_from(_, _, _, _)
get_all_moves_from(bv, current, last_move, col) ==
    IF col >= bv.width
        THEN <<>>
        ELSE get_all_moves_rows(bv, current, last_move, col, 0)
             \o get_all_moves_from(bv, current, last_move, col + 1)

\* game_analyser::get_all_moves.
get_all_moves(bv, current, last_move) ==
    get_all_moves_from(bv, current, last_move, 0)

\* The simulation of the castle evaluators: on a clone, the King is removed
\* from (col, row) and placed on (to, row).  A column below 0 is not
\* reached: the subtraction on usize overflows, or the unwrap of place_piece
\* fails, and either one panics.
move_king(bv, col, row, to) ==
    LET removed == remove_piece(bv.squares, col, row)
        placed == place_piece(removed.map, removed.val, to, row)
    IN [panic |-> placed.panic, board |-> [bv EXCEPT !.squares = placed.map]]

\* The body of the scan of an evaluator for the first piece met, on (col, row):
\* it must be a King, not in check, and not in check one and two columns
\* below its own.
castle_king(color, bv, col, row) ==
    IF check_space(bv, col, row).val.piece_type # King THEN Ok(FALSE)
    ELSE IF is_color_in_check(bv, color, NoMove) THEN Ok(FALSE)
    ELSE LET one == move_king(bv, col, row, col - 1) IN
        IF one.panic THEN Panic
        ELSE IF is_color_in_check(one.board, color, NoMove) THEN Ok(FALSE)
        ELSE LET two == move_king(bv, col, row, col - 2) IN
            IF two.panic THEN Panic
            ELSE IF is_color_in_check(two.board, color, NoMove) THEN Ok(FALSE)
            ELSE Ok(TRUE)

\* The scan of can_castle_long: for col in 1..width, from col on.
RECURSIVE castle_scan_long(_, _, _, _)
castle_scan_long(color, bv, row, col) ==
    IF col >= bv.width THEN Ok(FALSE)
    ELSE IF check_space(bv, col, row).val # None THEN castle_king(color, bv, col, row)
    ELSE castle_scan_long(color, bv, row, col + 1)

\* The scan of can_castle_short: for col in (0..width - 1).rev(), from col on.
RECURSIVE castle_scan_short(_, _, _, _)
castle_scan_short(color, bv, row, col) ==
    IF col < 0 THEN Ok(FALSE)
    ELSE IF check_space(bv, col, row).val # None THEN castle_king(color, bv, col, row)
    ELSE castle_scan_short(color, bv, row, col - 1)

\* The row of the evaluators: 0 for White, height - 1 for Black.
castle_row(color, bv) == IF color = White THEN 0 ELSE bv.height - 1

\* game_analyser::can_castle_long.
can_castle_long(color, bv) ==
    LET row == castle_row(color, bv)
        corner == check_space(bv, 0, row).val
    IN IF corner = None THEN Ok(FALSE)
       ELSE IF corner.piece_type # Rook THEN Ok(FALSE)
       ELSE castle_scan_long(color, bv, row, 1)

\* game_analyser::can_castle_short.
can_castle_short(color, bv) ==
    LET row == castle_row(color, bv)
        corner == check_space(bv, bv.width - 1, row).val
    IN IF corner = None THEN Ok(FALSE)
       ELSE IF corner.piece_type # Rook THEN Ok(FALSE)
       ELSE castle_scan_short(color, bv, row, bv.width - 2)

\* The pieces of one colour, as get_game_state collects them.
active_pieces(bv, color) ==
    LET all == [i \in 1 .. bv.width * bv.height |-> bv.squares[SquareAt(bv, i)]]
    IN SelectSeq(all, LAMBDA p : p # None /\ p.color = color)

CountOf(pieces, piece_type) ==
    Cardinality({i \in 1 .. Len(pieces) : pieces[i].piece_type = piece_type})

\* A material test that also counts a King with two Knights as insufficient.
is_insufficient_material_two_knights(pieces) ==
    LET king_count == CountOf(pieces, King)
        bishop_count == CountOf(pieces, Bishop)
        knight_count == CountOf(pieces, Knight)
        other_count == Len(pieces) - knight_count - bishop_count - king_count
    IN IF other_count > 0 THEN [panic |-> FALSE, val |-> FALSE]
       ELSE IF king_count = 0 THEN [panic |-> TRUE, val |-> FALSE]
       ELSE IF bishop_count = 0 /\ knight_count <= 2 THEN [panic |-> FALSE, val |-> TRUE]
       ELSE IF bishop_count = 1 /\ knight_count = 0 THEN [panic |-> FALSE, val |-> TRUE]
       ELSE [panic |-> FALSE, val |-> FALSE]

\* game_analyser::is_insufficient_material.
is_insufficient_material(pieces) ==
    LET king_count == CountOf(pieces, King)
        bishop_count == CountOf(pieces, Bishop)
        knight_count == CountOf(pieces, Knight)
        other_count == Len(pieces) - knight_count - bishop_count - king_count
    IN IF other_count > 0 THEN [panic |-> FALSE, val |-> FALSE]
       ELSE IF king_count = 0 THEN [panic |-> TRUE, val |-> FALSE]
       ELSE IF bishop_count = 0 /\ knight_count = 0 THEN [panic |-> FALSE, val |-> TRUE]
       ELSE IF bishop_count = 1 /\ knight_count = 0 THEN [panic |-> FALSE, val |-> TRUE]
       ELSE IF bishop_count = 0 /\ knight_count = 1 THEN [panic |-> FALSE, val |-> TRUE]
       ELSE [panic |-> FALSE, val |-> FALSE]

Returned(status, list) == [panic |-> FALSE, status |-> status, moves |-> list]

Panicked == [panic |-> TRUE, status |-> "None", moves |-> <<>>]

\* A classifier that tests the fifty-move signal before the material.
get_game_state_fifty_first(bv, current, last_move, can_trigger_fifty_move_rule) ==
    LET is_in_check == is_color_in_check(bv, current, last_move)
        possible_next_moves == get_all_moves(bv, current, last_move)
        white == is_insufficient_material(active_pieces(bv, White))
        black == is_insufficient_material(active_pieces(bv, Black))
    IN IF possible_next_moves = <<>>
           THEN IF is_in_check
               THEN Returned("Checkmate", possible_next_moves)
               ELSE Returned("Stalemate", possible_next_moves)
       ELSE IF is_in_check THEN Returned("Check", possible_next_moves)
       ELSE IF can_trigger_fifty_move_rule
           THEN Returned("FiftyMoveRule", possible_next_moves)
       ELSE IF white.panic THEN Panicked
       ELSE IF white.val /\ black.panic THEN Panicked
       ELSE IF white.val /\ black.val
           THEN Returned("InsufficientMaterial", possible_next_moves)
       ELSE Returned("InProgress", possible_next_moves)

\* game_analyser::get_game_state.
get_game_state(bv, current, last_move, can_trigger_fifty_move_rule) ==
    LET is_in_check == is_color_in_check(bv, current, last_move)
        possible_next_moves == get_all_moves(bv, current, last_move)
        white == is_insufficient_material(active_pieces(bv, White))
        black == is_insufficient_material(active_pieces(bv, Black))
    IN IF possible_next_moves = <<>>
           THEN IF is_in_check
               THEN Returned("Checkmate", possible_next_moves)
               ELSE Returned("Stalemate", possible_next_moves)
       ELSE IF is_in_check THEN Returned("Check", possible_next_moves)
       ELSE IF white.panic THEN Panicked
       ELSE IF white.val /\ black.panic THEN Panicked
       ELSE IF white.val /\ black.val
           THEN Returned("InsufficientMaterial", possible_next_moves)
       ELSE IF can_trigger_fifty_move_rule
           THEN Returned("FiftyMoveRule", possible_next_moves)
       ELSE Returned("InProgress", possible_next_moves)

----------------------------------------------------------------------------
(* Square names.  A name is a sequence of characters, each a code point.   *)
(* A usize has UsizeBits bits; arithmetic that leaves its range panics     *)
(* when the build has overflow checks and wraps when it has none.          *)

UsizeMax == 2 ^ UsizeBits - 1

\* The value of a usize operation whose exact result is x: the wrapped
\* value, and whether the exact result left the range.
usize(x) ==
    [overflow |-> x < 0 \/ x > UsizeMax,
     val |-> ((x % (UsizeMax + 1)) + (UsizeMax + 1)) % (UsizeMax + 1)]

\* char::is_ascii_alphabetic and char::is_ascii_digit.
is_ascii_alphabetic(c) == c \in 65 .. 90 \/ c \in 97 .. 122
is_ascii_digit(c) == c \in 48 .. 57

\* chars().rev().collect().
rev(str) == [i \in 1 .. Len(str) |-> str[Len(str) + 1 - i]]

\* The decimal digits of a number, as format! writes them.
RECURSIVE to_string(_)
to_string(n) ==
    IF n < 10 THEN << 48 + n >> ELSE Append(to_string(n \div 10), 48 + (n % 10))

\* A loop that goes on without the step from remainder to remainder - 1.
RECURSIVE col_id_loop_plain(_, _)
col_id_loop_plain(remainder, col_id) ==
    LET pushed == Append(col_id, (remainder % 26) + 97) IN
        IF remainder \div 26 = 0
            THEN pushed
            ELSE col_id_loop_plain(remainder \div 26, pushed)

\* The loop of get_square_name_from_row_and_col: the letters of the column,
\* last letter first.
RECURSIVE col_id_loop(_, _)
col_id_loop(remainder, col_id) ==
    LET pushed == Append(col_id, (remainder % 26) + 97) IN
        IF remainder \div 26 = 0
            THEN pushed
            ELSE col_id_loop(remainder \div 26 - 1, pushed)

\* square::get_square_name_from_row_and_col: the letters reversed, then
\* row + 1 in decimal.
get_square_name_from_row_and_col(column, row, overflow_checks) ==
    LET col_id == rev(col_id_loop(column, <<>>))
        number == usize(row + 1)
    IN IF number.overflow /\ overflow_checks
           THEN Panic
           ELSE Ok(col_id \o to_string(number.val))

\* The loop over name.chars(): letters are collected until the first digit,
\* digits after it; any other character is invalid.
RECURSIVE split_name(_, _, _, _, _)
split_name(name, i, finding_col, col_as_string, row_as_string) ==
    IF i > Len(name)
        THEN [valid |-> TRUE, col |-> col_as_string, row |-> row_as_string]
    ELSE IF finding_col /\ is_ascii_alphabetic(name[i])
        THEN split_name(name, i + 1, TRUE, Append(col_as_string, name[i]), row_as_string)
    ELSE IF is_ascii_digit(name[i])
        THEN split_name(name, i + 1, FALSE, col_as_string, Append(row_as_string, name[i]))
    ELSE [valid |-> FALSE, col |-> col_as_string, row |-> row_as_string]

\* 26_usize.pow(n): n multiplications by 26.
RECURSIVE pow26(_)
pow26(n) ==
    IF n = 0
        THEN usize(1)
        ELSE LET below == pow26(n - 1)
                 product == usize(below.val * 26)
             IN [overflow |-> below.overflow \/ product.overflow, val |-> product.val]

\* The loop over col_as_string.chars().enumerate(), from the index on
\* (counted from 1): column += 26^(len - index - 1) * (c - 'a' + 1).
RECURSIVE column_loop(_, _, _)
column_loop(col_as_string, index, column) ==
    IF index > Len(col_as_string)
        THEN column
        ELSE LET difference == usize(col_as_string[index] - 97)
                 base_26 == usize(difference.val + 1)
                 power == pow26(Len(col_as_string) - index)
                 product == usize(power.val * base_26.val)
                 sum == usize(column.val + product.val)
             IN column_loop(col_as_string, index + 1,
                    [overflow |-> \/ column.overflow \/ difference.overflow
                                  \/ base_26.overflow \/ power.overflow
                                  \/ product.overflow \/ sum.overflow,
                     val |-> sum.val])

\* str::parse::<usize> on a run of digits: the value, or an error when it
\* does not fit.
RECURSIVE parse(_, _, _)
parse(row_as_string, i, value) ==
    IF i > Len(row_as_string)
        THEN [error |-> FALSE, val |-> value]
        ELSE LET next == value * 10 + (row_as_string[i] - 48) IN
            IF next > UsizeMax
                THEN [error |-> TRUE, val |-> 0]
                ELSE parse(row_as_string, i + 1, next)

\* What the parser returns: a panic, Err("Invalid input") or Ok((column, row)).
NamePanic == [panic |-> TRUE, status |-> "None", val |-> <<>>]
NameErr == [panic |-> FALSE, status |-> "Err", val |-> <<>>]
NameOk(column, row) == [panic |-> FALSE, status |-> "Ok", val |-> <<column, row>>]

\* square::get_column_and_row_from_square_name.
get_column_and_row_from_square_name(name, overflow_checks) ==
    LET split == split_name(name, 1, TRUE, <<>>, <<>>) IN
        IF ~split.valid \/ split.col = <<>> \/ split.row = <<>>
            THEN NameErr
            ELSE LET column == column_loop(split.col, 1, usize(0)) IN
                IF column.overflow /\ overflow_checks
                    THEN NamePanic
                    ELSE LET row == parse(split.row, 1, 0) IN
                        IF row.error
                            THEN NamePanic
                            ELSE LET c == usize(column.val - 1)
                                     r == usize(row.val - 1)
                                 IN IF (c.overflow \/ r.overflow) /\ overflow_checks
                                        THEN NamePanic
                                        ELSE NameOk(c.val, r.val)

----------------------------------------------------------------------------
(* The state machine. *)

Call(name, on, piece, col, row, color) ==
    [name |-> name, on |-> on, piece |-> piece, col |-> col, row |-> row,
     color |-> color]

NoCall == Call("new", "-", None, 0, 0, "None")

Result(panic, val, status, list) ==
    [panic |-> panic, val |-> val, status |-> status, moves |-> list]

NoResult == Result(FALSE, None, "None", <<>>)

\* The castling flags of a new Game: every flag is set.
NewRights ==
    [white_can_castle_long |-> TRUE, white_can_castle_short |-> TRUE,
     black_can_castle_long |-> TRUE, black_can_castle_short |-> TRUE]

\* The name of the castling flag of a colour and a side.
Flag(color, side) ==
    CASE color = White /\ side = "long" -> "white_can_castle_long"
      [] color = White /\ side = "short" -> "white_can_castle_short"
      [] color = Black /\ side = "long" -> "black_can_castle_long"
      [] color = Black /\ side = "short" -> "black_can_castle_short"

\* The back rank of a colour.
back_row(color, bv) == IF color = White THEN 0 ELSE bv.height - 1

\* The flags a piece leaving or being captured on a square takes away: both
\* flags of its colour for a King, the flag of the corner for a Rook on a
\* corner of its back rank.
flags_lost(piece, square, bv) ==
    IF piece = None THEN {}
    ELSE IF piece.piece_type = King
        THEN {Flag(piece.color, "long"), Flag(piece.color, "short")}
    ELSE IF piece.piece_type = Rook /\ square[2] = back_row(piece.color, bv)
        THEN (IF square[1] = 0 THEN {Flag(piece.color, "long")} ELSE {})
             \cup (IF square[1] = bv.width - 1
                       THEN {Flag(piece.color, "short")} ELSE {})
    ELSE {}

\* Flags derived from the board after the move instead of being kept: a
\* flag is set when a Rook of the colour stands on the corner and a King of
\* the colour on the back rank.
update_rights_from_board(flags, m, bv) ==
    LET after == make_move(m, bv)
        king_home(color) ==
            \E c \in 0 .. bv.width - 1 :
                after.squares[<<c, back_row(color, bv)>>] = ChessPiece(color, King)
        rook_home(color, c) ==
            after.squares[<<c, back_row(color, bv)>>] = ChessPiece(color, Rook)
    IN [white_can_castle_long |-> king_home(White) /\ rook_home(White, 0),
        white_can_castle_short |-> king_home(White) /\ rook_home(White, bv.width - 1),
        black_can_castle_long |-> king_home(Black) /\ rook_home(Black, 0),
        black_can_castle_short |-> king_home(Black) /\ rook_home(Black, bv.width - 1)]

\* The flags after a move is applied to the board bv: a flag is cleared when
\* the King or the Rook of its corner moves or is captured, and stays as it
\* is otherwise.
update_rights(flags, m, bv) ==
    LET captured_on == IF m.kind = "EnPassant" THEN m.taken_position ELSE m.new_position
        lost == flags_lost(m.piece, m.original_position, bv)
                    \cup flags_lost(m.taken_piece, captured_on, bv)
    IN [f \in DOMAIN flags |-> flags[f] /\ f \notin lost]

\* ChessGame::new: White to move, turn number 1.
new == [current_turn |-> White, turn_number |-> 1]

\* ChessGame::change_turn: the colour to move is toggled.
change_turn(game) ==
    [game EXCEPT !.current_turn = IF game.current_turn = White THEN Black ELSE White]

\* The board an operation is called on.
Target(on) == IF on = "board" THEN board ELSE cloned

\* The history read at its first move instead of its last.
LastMoveFirst == IF moves = <<>> THEN NoMove ELSE moves[1]

\* The last move of the game, handed to the generators.
LastMove == IF moves = <<>> THEN NoMove ELSE moves[Len(moves)]

\* GameBoard::build or GameBoard::from_string, and Game::new_game: a
\* width x height board with at most cap pieces, the colour to move and the
\* fifty-move signal.
InitOf(width, height, pieces, cap, turns, signals) ==
    /\ \E S \in SUBSET DOMAIN generate_board(width, height) :
           /\ Cardinality(S) <= cap
           /\ \E f \in [S -> pieces] :
                  heap = [h \in Handles |->
                             IF h = 1
                                 THEN [sq \in DOMAIN generate_board(width, height) |->
                                          IF sq \in S THEN f[sq] ELSE None]
                                 ELSE NoMap]
    /\ board = [squares |-> 1, width |-> width, height |-> height]
    /\ cloned = NoBoard
    /\ current_turn \in turns
    /\ fifty \in signals
    /\ moves = <<>>
    /\ turn_number = 1
    /\ rights = NewRights
    /\ op = NoCall
    /\ ret = NoResult

\* board.place_piece(piece, col, row).
PlacePiece(on, piece, col, row, cap) ==
    /\ Target(on) # NoBoard
    /\ LET r == place_piece(heap[Target(on).squares], piece, col, row) IN
           /\ PieceCount(r.map) <= cap
           /\ heap' = [heap EXCEPT ![Target(on).squares] = r.map]
           /\ ret' = Result(r.panic, None, "None", <<>>)
    /\ op' = Call("place_piece", on, piece, col, row, "None")
    /\ UNCHANGED <<board, cloned, current_turn, fifty, moves, turn_number, rights>>

\* board.remove_piece(col, row).
RemovePiece(on, col, row) ==
    /\ Target(on) # NoBoard
    /\ LET r == remove_piece(heap[Target(on).squares], col, row) IN
           /\ heap' = [heap EXCEPT ![Target(on).squares] = r.map]
           /\ ret' = Result(r.panic, r.val, "None", <<>>)
    /\ op' = Call("remove_piece", on, None, col, row, "None")
    /\ UNCHANGED <<board, cloned, current_turn, fifty, moves, turn_number, rights>>

\* board.check_space(col, row).
CheckSpace(on, col, row) ==
    /\ Target(on) # NoBoard
    /\ LET r == check_space(Snapshot(heap, Target(on)), col, row) IN
           ret' = Result(r.panic, r.val, "None", <<>>)
    /\ op' = Call("check_space", on, None, col, row, "None")
    /\ UNCHANGED <<heap, board, cloned, current_turn, fifty, moves, turn_number, rights>>

\* board.clone(): the clone gets the free handle.
Clone ==
    /\ board # NoBoard
    /\ cloned = NoBoard
    /\ LET r == clone(heap, board, 2) IN
           /\ heap' = r.heap
           /\ cloned' = r.board
    /\ op' = Call("clone", "board", None, 0, 0, "None")
    /\ ret' = NoResult
    /\ UNCHANGED <<board, current_turn, fifty, moves, turn_number, rights>>

\* The clone is discarded.
DropClone ==
    /\ cloned # NoBoard
    /\ heap' = [heap EXCEPT ![cloned.squares] = NoMap]
    /\ cloned' = NoBoard
    /\ op' = Call("drop", "clone", None, 0, 0, "None")
    /\ ret' = NoResult
    /\ UNCHANGED <<board, current_turn, fifty, moves, turn_number, rights>>

\* bishop::possible_moves(color, (col, row), board).
PossibleMoves(color, col, row) ==
    /\ op = NoCall
    /\ ret' = Result(FALSE, None, "None",
                  possible_moves(color, <<col, row>>, Snapshot(heap, board)))
    /\ op' = Call("possible_moves", "board", None, col, row, color)
    /\ UNCHANGED <<heap, board, cloned, current_turn, fifty, moves, turn_number, rights>>

\* game_analyser::get_game_state(&game).
GetGameState ==
    /\ op.name \in {"new", "change_turn"}
    /\ LET r == get_game_state(Snapshot(heap, board), current_turn, LastMove, fifty) IN
           ret' = Result(r.panic, None, r.status, r.moves)
    /\ op' = Call("get_game_state", "board", None, 0, 0, current_turn)
    /\ UNCHANGED <<heap, board, cloned, current_turn, fifty, moves, turn_number, rights>>

\* The driver applies the i-th move of the list the classifier returned: the
\* move applies itself to the board, is pushed on the history, the flags are
\* updated and change_turn is called.  At most cap moves are applied.
ChangeTurn(i, cap) ==
    /\ op.name = "get_game_state"
    /\ ~ret.panic
    /\ i \in 1 .. Len(ret.moves)
    /\ Len(moves) < cap
    /\ LET m == ret.moves[i]
           game == change_turn([current_turn |-> current_turn,
                                turn_number |-> turn_number])
       IN /\ heap' = [heap EXCEPT ![board.squares] =
                          make_move(m, Snapshot(heap, board)).squares]
          /\ moves' = Append(moves, m)
          /\ current_turn' = game.current_turn
          /\ turn_number' = game.turn_number
          /\ rights' = update_rights(rights, m, Snapshot(heap, board))
          /\ op' = Call("change_turn", "board", m.piece,
                        m.new_position[1], m.new_position[2], current_turn)
    /\ ret' = NoResult
    /\ UNCHANGED <<board, cloned, fifty>>

\* game_analyser::can_castle_long(color, &board) and can_castle_short(color, &board).
CanCastle(color, side) ==
    /\ op = NoCall
    /\ LET r == IF side = "long"
                    THEN can_castle_long(color, Snapshot(heap, board))
                    ELSE can_castle_short(color, Snapshot(heap, board))
       IN ret' = Result(r.panic, r.val, "None", <<>>)
    /\ op' = Call(IF side = "long" THEN "can_castle_long" ELSE "can_castle_short",
                  "board", None, 0, 0, color)
    /\ UNCHANGED <<heap, board, cloned, current_turn, fifty, moves, turn_number, rights>>

\* game_analyser::is_color_in_check(&board, color, None).
IsColorInCheck(color) ==
    /\ op = NoCall
    /\ ret' = Result(FALSE, is_color_in_check(Snapshot(heap, board), color, NoMove),
                     "None", <<>>)
    /\ op' = Call("is_color_in_check", "board", None, 0, 0, color)
    /\ UNCHANGED <<heap, board, cloned, current_turn, fifty, moves, turn_number, rights>>

\* game_analyser::is_color_in_check(&board, color, last_move) with a last
\* move that need not be the one that led to the board.
IsColorInCheckAfter(color, last_move) ==
    /\ op = NoCall
    /\ ret' = Result(FALSE, is_color_in_check(Snapshot(heap, board), color, last_move),
                     "None", <<>>)
    /\ op' = [name |-> "is_color_in_check", on |-> "board", piece |-> None,
              col |-> 0, row |-> 0, color |-> color, last_move |-> last_move]
    /\ UNCHANGED <<heap, board, cloned, current_turn, fifty, moves, turn_number, rights>>

\* A call of a square-name function: the coordinate or the name the
\* sequence of calls started from, and the build.
NameCall(name, input, column, row, text, overflow_checks) ==
    [name |-> name, on |-> "-", piece |-> None, col |-> column, row |-> row,
     color |-> "None", input |-> input, text |-> text,
     overflow_checks |-> overflow_checks]

\* get_square_name_from_row_and_col(column, row), called with the coordinate
\* given or with the coordinate the parser returned.
GetSquareNameFromRowAndCol ==
    /\ \/ op.name = "new" /\ op.input = "coordinate"
       \/ /\ op.name = "get_column_and_row_from_square_name"
          /\ op.input = "name"
          /\ ~ret.panic
          /\ ret.status = "Ok"
    /\ LET column == IF op.name = "new" THEN op.col ELSE ret.val[1]
           row == IF op.name = "new" THEN op.row ELSE ret.val[2]
           r == get_square_name_from_row_and_col(column, row, op.overflow_checks)
       IN /\ ret' = Result(r.panic, r.val, "None", <<>>)
          /\ op' = [op EXCEPT !.name = "get_square_name_from_row_and_col",
                              !.col = column, !.row = row]
    /\ UNCHANGED <<heap, board, cloned, current_turn, fifty, moves, turn_number, rights>>

\* get_column_and_row_from_square_name(name), called with the name given or
\* with the name the generator returned.
GetColumnAndRowFromSquareName ==
    /\ \/ op.name = "new" /\ op.input = "name"
       \/ /\ op.name = "get_square_name_from_row_and_col"
          /\ op.input = "coordinate"
          /\ ~ret.panic
    /\ LET name == IF op.name = "new" THEN op.text ELSE ret.val
           r == get_column_and_row_from_square_name(name, op.overflow_checks)
       IN /\ ret' = Result(r.panic, r.val, r.status, <<>>)
          /\ op' = [op EXCEPT !.name = "get_column_and_row_from_square_name",
                              !.text = name]
    /\ UNCHANGED <<heap, board, cloned, current_turn, fifty, moves, turn_number, rights>>

\* A call of from_string on the text of the state, with the given width and
\* height: the board of the state is the one it returns.
FromStringCall(name, width, height) ==
    /\ op.name = "new"
    /\ op.input = "diagram"
    /\ LET r == from_string(width, height, op.text) IN
           /\ heap' = [heap EXCEPT ![1] = r.map]
           /\ board' = IF r.status = "Ok"
                           THEN [squares |-> 1, width |-> width, height |-> height]
                           ELSE NoBoard
           /\ ret' = Result(r.panic, None, r.status, <<>>)
    /\ op' = [op EXCEPT !.name = name, !.width = width, !.height = height]
    /\ UNCHANGED <<cloned, current_turn, fifty, moves, turn_number, rights>>

\* GameBoard::from_string(width, height, s).
FromString == FromStringCall("from_string", op.width, op.height)

\* GameBoard::chess_board_from_string(s): from_string(8, 8, s).
ChessBoardFromString ==
    FromStringCall("chess_board_from_string", ChessBoardDim, ChessBoardDim)

----------------------------------------------------------------------------
(* The board specification: the operations of a GameBoard and its clone,   *)
(* called with coordinates inside and outside the board.                   *)

BoardPieces == {ChessPiece(White, Knight), ChessPiece(Black, Queen)}

Coords == 0 .. MaxCoord

\* GameBoard::build(width, height) for every width and height up to MaxDim,
\* zero included: a failed construction leaves no board.
InitBoard ==
    \E width \in 0 .. MaxDim, height \in 0 .. MaxDim :
        LET r == build(width, height) IN
            /\ heap = [h \in Handles |-> IF h = 1 THEN r.map ELSE NoMap]
            /\ board = IF r.panic
                           THEN NoBoard
                           ELSE [squares |-> 1, width |-> width, height |-> height]
            /\ cloned = NoBoard
            /\ current_turn = White
            /\ fifty = FALSE
            /\ moves = <<>>
            /\ turn_number = 1
            /\ rights = NewRights
            /\ op = Call("build", "board", None, width, height, "None")
            /\ ret = Result(r.panic, None, "None", <<>>)

NextBoard ==
    \/ \E on \in {"board", "clone"}, piece \in BoardPieces, col \in Coords, row \in Coords :
           PlacePiece(on, piece, col, row, MaxBoardPieces)
    \/ \E on \in {"board", "clone"}, col \in Coords, row \in Coords :
           RemovePiece(on, col, row)
    \/ \E on \in {"board", "clone"}, col \in Coords, row \in Coords :
           CheckSpace(on, col, row)
    \/ Clone
    \/ DropClone

SpecBoard == InitBoard /\ [][NextBoard]_vars

----------------------------------------------------------------------------
(* The bishop specification: the generator applied to a bishop of either   *)
(* colour on any square of a board with a few pieces.                      *)

BishopBoardPieces == {ChessPiece(White, Knight), ChessPiece(Black, Knight)}

BishopCoords == 0 .. BishopDim - 1

InitBishop ==
    InitOf(BishopDim, BishopDim, BishopBoardPieces, MaxBishopPieces, {White}, {FALSE})

NextBishop ==
    \E color \in Colors, col \in BishopCoords, row \in BishopCoords :
        PossibleMoves(color, col, row)

SpecBishop == InitBishop /\ [][NextBishop]_vars

----------------------------------------------------------------------------
(* The game specification: the classifier on positions with a few pieces,  *)
(* for either colour to move and either value of the fifty-move signal.    *)
(* A position has fewer than MaxGamePieces pieces of any kind and colour,  *)
(* or MaxGamePieces pieces of which one is a King alone of its colour.     *)

PiecesOf(m, color) == {sq \in DOMAIN m : m[sq] # None /\ m[sq].color = color}

BareKing(m, color) ==
    /\ Cardinality(PiecesOf(m, color)) = 1
    /\ \A sq \in PiecesOf(m, color) : m[sq].piece_type = King

InitGame ==
    /\ InitOf(GameDim, GameDim, AllPieces, MaxGamePieces, Colors, BOOLEAN)
    /\ PieceCount(heap[1]) = MaxGamePieces
           => BareKing(heap[1], White) \/ BareKing(heap[1], Black)

NextGame == GetGameState

SpecGame == InitGame /\ [][NextGame]_vars

----------------------------------------------------------------------------
(* The material specification: the classifier on a board of one rank with  *)
(* any piece or none on each square.                                       *)

InitMaterial ==
    InitOf(MaterialWidth, 1, AllPieces, MaterialWidth, Colors, BOOLEAN)

NextMaterial == GetGameState

SpecMaterial == InitMaterial /\ [][NextMaterial]_vars

----------------------------------------------------------------------------
(* The opening specification: a new ChessGame on the standard layout, the  *)
(* classifier called after each move and the moves of the returned list    *)
(* applied, up to MaxOpeningPlies moves.                                   *)

InitOpening ==
    /\ heap = [h \in Handles |-> IF h = 1 THEN build_chess_board ELSE NoMap]
    /\ board = [squares |-> 1, width |-> ChessBoardDim, height |-> ChessBoardDim]
    /\ cloned = NoBoard
    /\ current_turn = new.current_turn
    /\ turn_number = new.turn_number
    /\ fifty = FALSE
    /\ moves = <<>>
    /\ rights = NewRights
    /\ op = NoCall
    /\ ret = NoResult

NextOpening ==
    \/ GetGameState
    \/ \E i \in 1 .. Len(ret.moves) : ChangeTurn(i, MaxOpeningPlies)

SpecOpening == InitOpening /\ [][NextOpening]_vars

----------------------------------------------------------------------------
(* The play specification: games from external positions on small boards,  *)
(* the classifier called after each move and the moves of the returned     *)
(* list applied, up to MaxPlayPlies moves.                                 *)

\* GameBoard::from_string and Game::new_game(board, color): the board with
\* the pieces of placed (a function from squares to pieces), the colour to
\* move, an empty history and every flag set.
InitFrom(width, height, placed, color) ==
    /\ heap = [h \in Handles |->
                  IF h = 1
                      THEN [sq \in DOMAIN generate_board(width, height) |->
                               IF sq \in DOMAIN placed THEN placed[sq] ELSE None]
                      ELSE NoMap]
    /\ board = [squares |-> 1, width |-> width, height |-> height]
    /\ cloned = NoBoard
    /\ current_turn = color
    /\ fifty = FALSE
    /\ moves = <<>>
    /\ turn_number = 1
    /\ rights = NewRights
    /\ op = NoCall
    /\ ret = NoResult

\* The pawn endings: each King on its back rank, a White pawn on its second
\* or third rank, a Black pawn on its second or third rank, either colour to
\* move.  The board of test_en_passant is one of them.
InitPawns ==
    \E wk, bk, wc, bc \in 0 .. PawnWidth - 1, wr \in {1, 2},
       br \in {PawnHeight - 2, PawnHeight - 3}, color \in Colors :
        /\ <<wc, wr>> # <<bc, br>>
        /\ InitFrom(PawnWidth, PawnHeight,
                    (<<wk, 0>> :> ChessPiece(White, King))
                        @@ (<<bk, PawnHeight - 1>> :> ChessPiece(Black, King))
                        @@ (<<wc, wr>> :> ChessPiece(White, Pawn))
                        @@ (<<bc, br>> :> ChessPiece(Black, Pawn)),
                    color)

\* The rook endings: each King on the middle of its back rank, a Rook or
\* none on each corner of either back rank, either colour to move.
InitRooks ==
    \E white, black \in SUBSET {0, RookWidth - 1}, color \in Colors :
        InitFrom(RookWidth, RookHeight,
                 [sq \in {<<RookWidth \div 2, 0>>, <<RookWidth \div 2, RookHeight - 1>>}
                            \cup {<<c, 0>> : c \in white}
                            \cup {<<c, RookHeight - 1>> : c \in black} |->
                     ChessPiece(IF sq[2] = 0 THEN White ELSE Black,
                                IF sq[1] = RookWidth \div 2 THEN King ELSE Rook)],
                 color)

InitPlay == InitPawns \/ InitRooks

NextPlay ==
    \/ GetGameState
    \/ \E i \in 1 .. Len(ret.moves) : ChangeTurn(i, MaxPlayPlies)

SpecPlay == InitPlay /\ [][NextPlay]_vars

----------------------------------------------------------------------------
(* The castle specification: the evaluators called for either colour and   *)
(* side on a board of two facing back ranks with a few Kings and Rooks.    *)

CastlePieces ==
    {ChessPiece(White, King), ChessPiece(White, Rook),
     ChessPiece(Black, King), ChessPiece(Black, Rook)}

Sides == {"long", "short"}

InitCastle ==
    InitOf(CastleWidth, CastleHeight, CastlePieces, MaxCastlePieces, {White}, {FALSE})

NextCastle == \E color \in Colors, side \in Sides : CanCastle(color, side)

SpecCastle == InitCastle /\ [][NextCastle]_vars

----------------------------------------------------------------------------
(* The check specification: the attack detector called for either colour  *)
(* on small square boards with a few pieces of any kind and colour.        *)

InitCheck ==
    \E dim \in CheckDims :
        InitOf(dim, dim, AllPieces, MaxCheckPieces, {White}, {FALSE})

NextCheck == \E color \in Colors : IsColorInCheck(color)

SpecCheck == InitCheck /\ [][NextCheck]_vars

----------------------------------------------------------------------------
(* The names specification: the square-name functions applied to a         *)
(* coordinate and then to each other's result, or to a name and then to    *)
(* each other's result, in a build with or without overflow checks.        *)

\* The columns and rows of the coordinates: the first columns, the columns
\* around the two-letter and three-letter names, and the ends of the range.
NameColumns == (0 .. 27) \cup {701, 702, 703, 18277, 18278, UsizeMax - 1, UsizeMax}

NameRows == {0, 1, 8, 9, 10, 98, 99, UsizeMax - 1, UsizeMax}

\* The characters of the names: a, b, z, A, 0, 1, 9 and "-".
NameChars == {97, 98, 122, 65, 48, 49, 57, 45}

\* The names: every sequence of up to MaxNameLen characters, and zzz100.
NameTexts ==
    UNION {[1 .. n -> NameChars] : n \in 1 .. MaxNameLen}
        \cup {<<122, 122, 122, 49, 48, 48>>}

InitNames ==
    /\ heap = [h \in Handles |-> NoMap]
    /\ board = NoBoard
    /\ cloned = NoBoard
    /\ current_turn = White
    /\ fifty = FALSE
    /\ moves = <<>>
    /\ turn_number = 1
    /\ rights = NewRights
    /\ ret = NoResult
    /\ \E overflow_checks \in BOOLEAN :
           \/ \E column \in NameColumns, row \in NameRows :
                  op = NameCall("new", "coordinate", column, row, <<>>, overflow_checks)
           \/ \E text \in NameTexts :
                  op = NameCall("new", "name", 0, 0, text, overflow_checks)

NextNames ==
    \/ GetSquareNameFromRowAndCol
    \/ GetColumnAndRowFromSquareName

SpecNames == InitNames /\ [][NextNames]_vars

----------------------------------------------------------------------------
(* The diagram specification: from_string applied to every short text for  *)
(* every small width and height, zero included, and to the diagrams of the *)
(* tests; chess_board_from_string applied to the same texts.               *)

\* The characters of the short diagrams: the first and the last piece glyph,
\* the code points next to them, the space and the line feed.
DiagramChars == {9812, 9823, 9811, 9824, 32, 10}

\* The diagram of tests::build_starting_position_from_string.
StartingDiagram ==
    <<9820, 9822, 9821, 9819, 9818, 9821, 9822, 9820, 10,
      9823, 9823, 9823, 9823, 9823, 9823, 9823, 9823, 10,
      32, 32, 32, 32, 32, 32, 32, 32, 10,
      32, 32, 32, 32, 32, 32, 32, 32, 10,
      32, 32, 32, 32, 32, 32, 32, 32, 10,
      32, 32, 32, 32, 32, 32, 32, 32, 10,
      9817, 9817, 9817, 9817, 9817, 9817, 9817, 9817, 10,
      9814, 9816, 9815, 9813, 9812, 9815, 9816, 9814, 10>>

\* The diagram of tests::should_be_able_to_detect_any_piece.
AnyPieceDiagram ==
    <<9820, 9822, 9821, 9819, 9818, 9823, 32, 10,
      9814, 9816, 9815, 9813, 9812, 9817, 32>>

\* The inputs: a width, a height and a text.
DiagramInputs ==
    ((0 .. MaxDiagramDim) \X (0 .. MaxDiagramDim)
         \X UNION {[1 .. n -> DiagramChars] : n \in 0 .. MaxDiagramLen})
    \cup {<<ChessBoardDim, ChessBoardDim, StartingDiagram>>,
          <<ChessBoardDim, ChessBoardDim, <<>>>>,
          <<7, 2, AnyPieceDiagram>>, <<2, 7, AnyPieceDiagram>>}

InitDiagram ==
    /\ heap = [h \in Handles |-> NoMap]
    /\ board = NoBoard
    /\ cloned = NoBoard
    /\ current_turn = White
    /\ fifty = FALSE
    /\ moves = <<>>
    /\ turn_number = 1
    /\ rights = NewRights
    /\ \E input \in DiagramInputs :
           op = [name |-> "new", input |-> "diagram", width |-> input[1],
                 height |-> input[2], text |-> input[3]]
    /\ ret = NoResult

NextDiagram ==
    \/ FromString
    \/ ChessBoardFromString

SpecDiagram == InitDiagram /\ [][NextDiagram]_vars

----------------------------------------------------------------------------
(* The stale specification: the attack detector called for either colour   *)
(* on a board of Kings and Pawns with no last move or with the advance of  *)
(* a Pawn by one or two squares, whether or not it led to the board.       *)

StalePieces ==
    {ChessPiece(White, King), ChessPiece(Black, King),
     ChessPiece(White, Pawn), ChessPiece(Black, Pawn)}

\* The last moves handed to the detector.
StaleMoves ==
    {NoMove} \cup
    {QuietOf(<<c, from>>, <<c, to>>, ChessPiece(color, Pawn), "None") :
         c \in 0 .. StaleWidth - 1,
         from \in 0 .. StaleHeight - 1,
         to \in 0 .. StaleHeight - 1,
         color \in Colors}

InitStale ==
    InitOf(StaleWidth, StaleHeight, StalePieces, MaxStalePieces, {White}, {FALSE})

NextStale ==
    \E color \in Colors, last_move \in StaleMoves :
        /\ last_move # NoMove =>
               LET far == last_move.new_position[2] - last_move.original_position[2]
               IN far \in {-2, -1, 1, 2}
        /\ IsColorInCheckAfter(color, last_move)

SpecStale == InitStale /\ [][NextStale]_vars

Spec == SpecGame

----------------------------------------------------------------------------
(* The bishop generator: properties of a call of possible_moves.           *)

\* The square k steps from position in the direction dir.
Step(position, dir, k) == <<position[1] + k * dir[1], position[2] + k * dir[2]>>

\* The destinations of a list of moves.
DestinationsOf(list) == {list[i].new_position : i \in 1 .. Len(list)}

\* The squares of the board on a diagonal through position.
DiagonalSquares(bv, position) ==
    {sq \in DOMAIN bv.squares :
        /\ sq # position
        /\ \/ sq[1] - position[1] = sq[2] - position[2]
           \/ sq[1] - position[1] = position[2] - sq[2]}

Friendly(bv, sq, color) == bv.squares[sq] # None /\ bv.squares[sq].color = color

Enemy(bv, sq, color) == bv.squares[sq] # None /\ bv.squares[sq].color # color

\* The first k - 1 squares from position in the direction dir are empty.
PathClear(bv, position, dir, k) ==
    \A j \in 1 .. k - 1 : bv.squares[Step(position, dir, j)] = None

\* C1: in every direction the first enemy-occupied square ends the walk of
\* the bishop generator: the capture on that square is generated and no
\* square farther along that direction is generated as a destination.
C1_FirstEnemyTerminates ==
    op.name = "possible_moves" =>
        LET bv == Snapshot(heap, board)
            position == <<op.col, op.row>>
            dests == DestinationsOf(ret.moves)
        IN \A d \in 1 .. Len(directions), k \in 1 .. BishopDim :
               LET sq == Step(position, directions[d], k) IN
                   (/\ sq \in DOMAIN bv.squares
                    /\ Enemy(bv, sq, op.color)
                    /\ PathClear(bv, position, directions[d], k))
                   => /\ sq \in dests
                      /\ \A j \in k + 1 .. BishopDim :
                             Step(position, directions[d], j) \notin dests

\* The board of the test bishop_movement: a White Bishop on (2, 5).
BishopAlone ==
    [squares |-> [generate_board(ChessBoardDim, ChessBoardDim)
                     EXCEPT ![<<2, 5>>] = ChessPiece(White, Bishop)],
     width |-> ChessBoardDim, height |-> ChessBoardDim]

\* The board of the test bishop_blocked_by_friendly_pieces_movement: a
\* White King on (3, 4) beside the Bishop.
BishopBlocked ==
    [BishopAlone EXCEPT !.squares[<<3, 4>>] = ChessPiece(White, King)]

BishopAloneMoves == possible_moves(White, <<2, 5>>, BishopAlone)

BishopBlockedMoves == possible_moves(White, <<2, 5>>, BishopBlocked)

\* What the two tests expect of the generator.
BishopTestsPass ==
    /\ Len(BishopAloneMoves) = 11
    /\ DestinationsOf(BishopAloneMoves) = DiagonalSquares(BishopAlone, <<2, 5>>)
    /\ Cardinality(DestinationsOf(BishopAloneMoves)) = 11
    /\ Len(BishopBlockedMoves) = 6
    /\ DestinationsOf(BishopBlockedMoves) =
           {<<0, 7>>, <<0, 3>>, <<1, 6>>, <<1, 4>>, <<3, 6>>, <<4, 7>>}

\* C2: every destination of the bishop generator is on the board, on a
\* diagonal through the origin, not a friendly-occupied square and not
\* beyond a friendly piece in its direction; on an otherwise empty board the
\* destinations are all the diagonal squares of the board, each generated
\* once: 11 from (2, 5) on the 8 x 8 board, 6 with a friendly piece on (3, 4).
C2_BishopDestinations ==
    op.name = "possible_moves" =>
        LET bv == Snapshot(heap, board)
            position == <<op.col, op.row>>
            dests == DestinationsOf(ret.moves)
            diagonals == DiagonalSquares(bv, position)
        IN /\ \A dest \in dests :
                  /\ dest[1] >= 0 /\ dest[1] < bv.width
                  /\ dest[2] >= 0 /\ dest[2] < bv.height
                  /\ dest \in diagonals
                  /\ ~Friendly(bv, dest, op.color)
                  /\ \A d \in 1 .. Len(directions), k \in 1 .. BishopDim :
                         dest = Step(position, directions[d], k)
                         => \A j \in 1 .. k - 1 :
                                ~Friendly(bv, Step(position, directions[d], j), op.color)
           /\ (\A sq \in DOMAIN bv.squares : sq = position \/ bv.squares[sq] = None)
                  => /\ dests = diagonals
                     /\ Len(ret.moves) = Cardinality(dests)
           /\ BishopTestsPass

\* A call of possible_moves with a friendly piece next to the origin on a
\* diagonal, a square of the board beyond it, and some destination generated.
C2_Witness ==
    /\ op.name = "possible_moves"
    /\ LET bv == Snapshot(heap, board)
           position == <<op.col, op.row>>
       IN /\ \E d \in 1 .. Len(directions) :
                 /\ Step(position, directions[d], 2) \in DOMAIN bv.squares
                 /\ Friendly(bv, Step(position, directions[d], 1), op.color)
          /\ ret.moves # <<>>

----------------------------------------------------------------------------
(* The classifier: properties of a call of get_game_state.                 *)

\* The King of the colour is attacked: some piece of the opposite colour has
\* a pseudo-legal move that captures it, whichever variant represents it.
KingAttacked(bv, color, last_move) ==
    \E sq \in DOMAIN bv.squares :
        LET piece == check_space(bv, sq[1], sq[2]).val IN
            /\ piece # None
            /\ piece.color = opposite_color(color)
            /\ LET generated == get_legal_moves(piece, sq[1], sq[2], bv, last_move) IN
                   \E i \in 1 .. Len(generated) :
                       /\ generated[i].taken_piece.piece_type = King
                       /\ generated[i].taken_piece.color = color

\* The pseudo-legal moves of the pieces of the colour to move, in the order
\* of the loops of get_all_moves.
RECURSIVE PseudoLegalFrom(_, _, _, _, _)
PseudoLegalFrom(bv, current, last_move, i, acc) ==
    IF i > bv.width * bv.height
        THEN acc
        ELSE LET sq == SquareAt(bv, i)
                 piece == check_space(bv, sq[1], sq[2]).val
             IN PseudoLegalFrom(bv, current, last_move, i + 1,
                    IF piece # None /\ piece.color = current
                        THEN acc \o get_legal_moves(piece, sq[1], sq[2], bv, last_move)
                        ELSE acc)

PseudoLegal(bv, current, last_move) == PseudoLegalFrom(bv, current, last_move, 1, <<>>)

\* The pseudo-legal moves after which the mover's King is not attacked.
KingSafeMoves(bv, current, last_move) ==
    SelectSeq(PseudoLegal(bv, current, last_move),
              LAMBDA m : ~KingAttacked(make_move(m, bv), current, last_move))

Classified == op.name = "get_game_state"

\* C3: the list returned by get_game_state is exactly the pseudo-legal
\* moves of the side to move after which the mover's own King is not
\* attacked: none that leaves the King in check, none that is safe omitted.
C3_LegalMovesKeepKingSafe ==
    (Classified /\ ~ret.panic) =>
        DestinationsOf(ret.moves) \subseteq DOMAIN heap[board.squares]
        /\ {ret.moves[i] : i \in 1 .. Len(ret.moves)} =
               LET safe == KingSafeMoves(Snapshot(heap, board), current_turn, LastMove)
               IN {safe[i] : i \in 1 .. Len(safe)}

\* C4: Checkmate is returned exactly when the side to move has no legal move
\* and is in check, Stalemate exactly when it has no legal move and is not in
\* check; in both cases no failure is raised and the returned list is empty.
C4_CheckmateAndStalemate ==
    Classified =>
        LET bv == Snapshot(heap, board)
            none_legal == KingSafeMoves(bv, current_turn, LastMove) = <<>>
            in_check == KingAttacked(bv, current_turn, LastMove)
        IN /\ none_legal => ~ret.panic
           /\ ret.status = "Checkmate" <=> (none_legal /\ in_check)
           /\ ret.status = "Stalemate" <=> (none_legal /\ ~in_check)
           /\ ret.status \in {"Checkmate", "Stalemate"} => ret.moves = <<>>

\* Material by the rule: no piece other than King, Bishop and Knight, and at
\* most one Bishop or Knight in total.
MaterialInsufficient(bv, color) ==
    LET held == {sq \in DOMAIN bv.squares : Friendly(bv, sq, color)} IN
        /\ \A sq \in held : bv.squares[sq].piece_type \in {King, Bishop, Knight}
        /\ Cardinality({sq \in held : bv.squares[sq].piece_type \in {Bishop, Knight}}) <= 1

\* The status of the priority order for a side that has a legal move.
StatusByPriority(bv, current, last_move, signal) ==
    IF KingAttacked(bv, current, last_move) THEN "Check"
    ELSE IF MaterialInsufficient(bv, White) /\ MaterialInsufficient(bv, Black)
        THEN "InsufficientMaterial"
    ELSE IF signal THEN "FiftyMoveRule"
    ELSE "InProgress"

\* C5: when the side to move has a legal move, a returned status follows the
\* priority Check, InsufficientMaterial, FiftyMoveRule, InProgress, and the
\* legal moves are returned with it.
C5_StatusPriority ==
    LET bv == Snapshot(heap, board)
        legal == KingSafeMoves(bv, current_turn, LastMove)
    IN (Classified /\ ~ret.panic /\ legal # <<>>) =>
           /\ ret.status = StatusByPriority(bv, current_turn, LastMove, fifty)
           /\ ret.moves = legal

\* The pieces of a colour are exactly these piece types, one of each.
HoldsExactly(bv, color, types) ==
    LET held == {sq \in DOMAIN bv.squares : Friendly(bv, sq, color)} IN
        /\ Cardinality(held) = Cardinality(types)
        /\ {bv.squares[sq].piece_type : sq \in held} = types

HasKing(bv, color) ==
    \E sq \in DOMAIN bv.squares : bv.squares[sq] = ChessPiece(color, King)

\* C6: material is judged colour by colour: a colour with a King is found
\* insufficient exactly when it has no piece other than King, Bishop and
\* Knight and at most one Bishop or Knight in total, a colour with any Pawn,
\* Rook or Queen is found sufficient, and InsufficientMaterial is returned
\* only when both colours are insufficient.
C6_MaterialPerColor ==
    Classified =>
        LET bv == Snapshot(heap, board) IN
            /\ \A color \in Colors :
                   LET judged == is_insufficient_material(active_pieces(bv, color)) IN
                       /\ HasKing(bv, color) =>
                              /\ ~judged.panic
                              /\ judged.val <=> MaterialInsufficient(bv, color)
                       /\ (\E sq \in DOMAIN bv.squares :
                               /\ Friendly(bv, sq, color)
                               /\ bv.squares[sq].piece_type \in {Pawn, Rook, Queen})
                              => ~judged.panic /\ ~judged.val
            /\ (~ret.panic /\ ret.status = "InsufficientMaterial") =>
                   MaterialInsufficient(bv, White) /\ MaterialInsufficient(bv, Black)

\* A bare White King against a Black King with two Knights: White is
\* insufficient, Black is not, and the game goes on.
C6_Witness ==
    /\ Classified
    /\ LET bv == Snapshot(heap, board) IN
           /\ HoldsExactly(bv, White, {King})
           /\ HasKing(bv, Black)
           /\ CountOf(active_pieces(bv, Black), Knight) = 2
           /\ is_insufficient_material(active_pieces(bv, White)).val
           /\ ~is_insufficient_material(active_pieces(bv, Black)).val
    /\ ret.status \in {"InProgress", "FiftyMoveRule"}

\* White has only a King and a Bishop and Black has only a King.
KingAndBishopAgainstKing(bv) ==
    HoldsExactly(bv, White, {King, Bishop}) /\ HoldsExactly(bv, Black, {King})

\* C7 as stated: every position of White King and Bishop against Black King
\* is classified InsufficientMaterial, for either side to move.
C7_AlwaysInsufficientMaterial ==
    (Classified /\ KingAndBishopAgainstKing(Snapshot(heap, board))) =>
        ~ret.panic /\ ret.status = "InsufficientMaterial"

\* C7: a position of White King and Bishop against Black King in which the
\* side to move is not in check and has a legal move is classified
\* InsufficientMaterial, for either side to move and either value of the
\* fifty-move signal.
C7_InsufficientMaterialUnlessCheckOrNoMove ==
    LET bv == Snapshot(heap, board) IN
        (/\ Classified
         /\ KingAndBishopAgainstKing(bv)
         /\ ~KingAttacked(bv, current_turn, LastMove)
         /\ KingSafeMoves(bv, current_turn, LastMove) # <<>>)
        => ~ret.panic /\ ret.status = "InsufficientMaterial"

\* A position of White King and Bishop against Black King classified
\* InsufficientMaterial while the fifty-move signal is set.
C7_Witness ==
    /\ Classified
    /\ KingAndBishopAgainstKing(Snapshot(heap, board))
    /\ ~KingAttacked(Snapshot(heap, board), current_turn, LastMove)
    /\ fifty
    /\ ret.status = "InsufficientMaterial"

\* C8: classifying a board on which some colour has no King panics and
\* returns no status.
C8_KinglessBoardPanics ==
    LET bv == Snapshot(heap, board) IN
        (Classified /\ (~HasKing(bv, White) \/ ~HasKing(bv, Black))) => ret.panic

----------------------------------------------------------------------------
(* The board: properties of the steps of place_piece, remove_piece,        *)
(* check_space and clone.                                                  *)

\* The step is a call of one of the names on a board.
Called(names) == op'.name \in names

\* The board the step is called on, before and after the step.
TargetBefore == Snapshot(heap, Target(op'.on))
TargetAfter == Snapshot(heap', Target(op'.on))

\* C9: place_piece, remove_piece and check_space called with col >= width or
\* row >= height fail: the call panics instead of returning a value, and the
\* board is as it was.
C9_OutOfBoundsFailsFast ==
    [][(/\ Called({"place_piece", "remove_piece", "check_space"})
        /\ (op'.col >= Target(op'.on).width \/ op'.row >= Target(op'.on).height))
       => (ret'.panic /\ TargetAfter = TargetBefore)]_vars

\* C10: a clone is equal to the original when it is made: same width, same
\* height, same occupant of every square; afterwards place_piece and
\* remove_piece on the clone leave the original as it was, and on the
\* original leave the clone as it was.
C10_CloneEqualAndIndependent ==
    [][/\ Called({"clone"}) =>
              /\ Snapshot(heap', cloned') = Snapshot(heap, board)
              /\ Snapshot(heap', board') = Snapshot(heap, board)
       /\ (Called({"place_piece", "remove_piece"}) /\ op'.on = "clone") =>
              Snapshot(heap', board') = Snapshot(heap, board)
       /\ (Called({"place_piece", "remove_piece"}) /\ op'.on = "board"
               /\ cloned # NoBoard) =>
              Snapshot(heap', cloned') = Snapshot(heap, cloned)]_vars

\* A piece has been placed on a square of the clone and the clone now differs
\* from the original.
C10_Witness ==
    /\ op.name = "place_piece"
    /\ op.on = "clone"
    /\ ~ret.panic
    /\ cloned # NoBoard
    /\ Snapshot(heap, cloned) # Snapshot(heap, board)
    /\ Snapshot(heap, cloned).squares[<<op.col, op.row>>] = op.piece

\* The squares of a board are exactly the coordinates of its dimensions,
\* each empty or holding one piece, and both dimensions are positive.
WellFormed(h, b) ==
    /\ b.width > 0
    /\ b.height > 0
    /\ DOMAIN h[b.squares] = (0 .. b.width - 1) \X (0 .. b.height - 1)
    /\ \A sq \in DOMAIN h[b.squares] : h[b.squares][sq] \in AllPieces \cup {None}

\* C11: in every state reached from a construction by place_piece,
\* remove_piece and clone, the board and its clone have exactly one square
\* for each coordinate of [0, width) x [0, height), each square holds at most
\* one piece, the dimensions are those of the construction and are positive,
\* and a construction with a zero dimension fails.
C11_BoardWellFormed ==
    /\ [](/\ board # NoBoard => WellFormed(heap, board)
          /\ cloned # NoBoard =>
                 /\ WellFormed(heap, cloned)
                 /\ cloned.width = board.width
                 /\ cloned.height = board.height
          /\ op.name = "build" =>
                 IF op.col = 0 \/ op.row = 0
                     THEN ret.panic /\ board = NoBoard
                     ELSE /\ ~ret.panic
                          /\ board.width = op.col
                          /\ board.height = op.row)
    /\ [][board'.width = board.width /\ board'.height = board.height]_vars

\* A piece has been removed from the board while its clone holds a piece.
C11_Witness ==
    /\ op.name = "remove_piece"
    /\ op.on = "board"
    /\ ret.val # None
    /\ cloned # NoBoard
    /\ PieceCount(heap[cloned.squares]) > 0
    /\ board.width # board.height

----------------------------------------------------------------------------
(* The game from the standard layout.                                      *)

\* The moves of a list made by pieces of a type.
MovesOfType(list, piece_type) ==
    {i \in 1 .. Len(list) : list[i].piece.piece_type = piece_type}

\* C12: from the standard starting position with White to move the
\* classifier returns InProgress and exactly 20 legal moves: 16 pawn moves
\* and 4 knight moves.
C12_StartingPosition ==
    (Classified /\ moves = <<>>) =>
        /\ Snapshot(heap, board).squares = build_chess_board
        /\ current_turn = White
        /\ ~ret.panic
        /\ ret.status = "InProgress"
        /\ Len(ret.moves) = 20
        /\ Cardinality({ret.moves[i] : i \in 1 .. Len(ret.moves)}) = 20
        /\ Cardinality(MovesOfType(ret.moves, Pawn)) = 16
        /\ Cardinality(MovesOfType(ret.moves, Knight)) = 4
        /\ \A i \in 1 .. Len(ret.moves) : ret.moves[i].piece.color = White

\* The classifier has been called on the starting position and has returned
\* a list with pawn moves of one and of two squares.
C12_Witness ==
    /\ Classified
    /\ moves = <<>>
    /\ \E i, j \in MovesOfType(ret.moves, Pawn) :
           /\ ret.moves[i].new_position[2] = 2
           /\ ret.moves[j].new_position[2] = 3

\* C18: a new game has White to move and turn number 1 on the standard
\* layout; every applied move toggles the colour to move and increases the
\* turn number; after n moves White is to move exactly when n is even.
C18_TurnsAlternateAndCount ==
    /\ [](/\ op.name = "new" =>
                 /\ current_turn = White
                 /\ turn_number = 1
                 /\ Snapshot(heap, board).squares = build_chess_board
          /\ current_turn = White <=> Len(moves) % 2 = 0)
    /\ [][op'.name = "change_turn" =>
              /\ current_turn' = opposite_color(current_turn)
              /\ turn_number' = turn_number + 1]_vars

----------------------------------------------------------------------------
(* En passant: properties of the lists of a game.                          *)

\* The last move on the history stepped a first-moving pawn two squares.
TwoSquareAdvance(m) ==
    /\ m.kind = "Move"
    /\ m.piece.piece_type = Pawn
    /\ m.original_position[1] = m.new_position[1]
    /\ m.new_position[2] - m.original_position[2] = 2 * pawn_forward(m.piece.color)

\* The square a two-square advance passed over.
PassedOver(m) == <<m.new_position[1], m.original_position[2] + pawn_forward(m.piece.color)>>

\* The squares beside the destination of m that hold a pawn of the colour.
PawnsBeside(bv, m, color) ==
    {sq \in DOMAIN bv.squares :
        /\ sq[2] = m.new_position[2]
        /\ sq[1] \in {m.new_position[1] - 1, m.new_position[1] + 1}
        /\ bv.squares[sq] = ChessPiece(color, Pawn)}

\* The positions of the en passant captures of a list.
EnPassants(list) == {i \in 1 .. Len(list) : list[i].kind = "EnPassant"}

\* The board of test_en_passant after White's pawn went from (1, 1) to (1, 3).
EnPassantTestBoard ==
    [sq \in DOMAIN generate_board(2, 5) |->
        CASE sq = <<0, 4>> -> ChessPiece(Black, King)
          [] sq = <<0, 3>> -> ChessPiece(Black, Pawn)
          [] sq = <<1, 3>> -> ChessPiece(White, Pawn)
          [] sq = <<1, 0>> -> ChessPiece(White, King)
          [] OTHER -> None]

\* C13: en passant eligibility lasts exactly one ply.  In every list the
\* classifier returns after a move: when the move just applied was a
\* two-square pawn advance landing beside a pawn of the side to move, the
\* list holds exactly one en passant capture by that pawn, onto the square
\* passed over and taking the advanced pawn, unless the capture would leave
\* the King of the side to move attacked; and every en passant capture of
\* the list answers the move just applied, so that after any other move the
\* capture is in no later list.  The list after the advance of
\* test_en_passant has 3 moves.
C13_EnPassantOnePly ==
    (op.name = "get_game_state" /\ ~ret.panic /\ moves # <<>>) =>
        LET last == moves[Len(moves)]
            bv == Snapshot(heap, board)
        IN /\ TwoSquareAdvance(last) =>
                  \A sq \in PawnsBeside(bv, last, current_turn) :
                      LET capture == EnPassantOf(sq, PassedOver(last), bv.squares[sq],
                                         last.piece, last.new_position)
                      IN ~KingAttacked(make_move(capture, bv), current_turn, last) =>
                             /\ Cardinality({i \in EnPassants(ret.moves) :
                                    ret.moves[i].original_position = sq}) = 1
                             /\ \E i \in EnPassants(ret.moves) : ret.moves[i] = capture
           /\ \A i \in EnPassants(ret.moves) :
                  /\ TwoSquareAdvance(last)
                  /\ ret.moves[i].original_position \in PawnsBeside(bv, last, current_turn)
                  /\ ret.moves[i].new_position = PassedOver(last)
                  /\ ret.moves[i].taken_position = last.new_position
           /\ (Len(moves) = 1 /\ bv.squares = EnPassantTestBoard /\ TwoSquareAdvance(last))
                  => Len(ret.moves) = 3

\* A list right after a two-square advance, with its en passant capture.
C13_Witness ==
    /\ op.name = "get_game_state"
    /\ ~ret.panic
    /\ moves # <<>>
    /\ TwoSquareAdvance(moves[Len(moves)])
    /\ Cardinality(EnPassants(ret.moves)) = 1
    /\ Snapshot(heap, board).squares = EnPassantTestBoard

----------------------------------------------------------------------------
(* Castling: properties of a call of an evaluator.                         *)

\* The corner of the Rook of a side, and the step from the King toward it.
CornerCol(bv, side) == IF side = "long" THEN 0 ELSE bv.width - 1
Toward(side) == IF side = "long" THEN -1 ELSE 1

\* The side an evaluator is about.
SideOf(name) == IF name = "can_castle_long" THEN "long" ELSE "short"

\* The columns of the rank strictly between two columns.
Between(a, b) == {c \in Int : (a < c /\ c < b) \/ (b < c /\ c < a)}

\* The columns of the rank other than the corner of the side that hold a piece.
Occupied(bv, row, side) ==
    {c \in 0 .. bv.width - 1 : c # CornerCol(bv, side) /\ bv.squares[<<c, row>>] # None}

\* The column of the first piece met from the corner of the side along the
\* rank, or -1 when the rest of the rank is empty.
FirstMet(bv, row, side) ==
    IF Occupied(bv, row, side) = {} THEN -1
    ELSE CHOOSE c \in Occupied(bv, row, side) :
             \A d \in Occupied(bv, row, side) :
                 IF side = "long" THEN c <= d ELSE c >= d

\* The board with the piece of (col, row) standing on (to, row) instead.
Relocated(bv, col, row, to) ==
    [bv EXCEPT !.squares =
        [bv.squares EXCEPT ![<<col, row>>] = None, ![<<to, row>>] = bv.squares[<<col, row>>]]]

\* An evaluator returned for the board: its colour, side, rank and answer.
Evaluated == op.name \in {"can_castle_long", "can_castle_short"}

\* C14: a castle is allowed only if the King is not in check and neither of
\* the two squares from the King's origin toward the castling Rook is
\* attacked.  Whenever an evaluator answers true and the first piece met
\* from the corner is the King of the colour, that King is not attacked
\* where it stands, nor one step, nor two steps toward the corner.
C14_CastleNotThroughCheck ==
    (Evaluated /\ ~ret.panic) =>
        LET bv == Snapshot(heap, board)
            side == SideOf(op.name)
            row == castle_row(op.color, bv)
            k == FirstMet(bv, row, side)
        IN (/\ ret.val = TRUE
            /\ k >= 0
            /\ bv.squares[<<k, row>>] = ChessPiece(op.color, King)) =>
               /\ ~KingAttacked(bv, op.color, NoMove)
               /\ \A step \in {1, 2} :
                      LET to == k + step * Toward(side) IN
                          OnBoard(bv, to, row) =>
                              ~KingAttacked(Relocated(bv, k, row, to), op.color, NoMove)

\* C15: an evaluator answers true for a colour only if a Rook of the colour
\* stands on the corner of the side on the back rank of the colour, a King
\* of the colour stands on that rank and every square strictly between
\* them is empty; it answers false when the corner piece or the first
\* piece met along the rank is missing, of the wrong type or of the
\* opposing colour.
C15_CastleNeedsOwnKingAndRook ==
    (Evaluated /\ ~ret.panic) =>
        LET bv == Snapshot(heap, board)
            side == SideOf(op.name)
            row == castle_row(op.color, bv)
            corner == bv.squares[<<CornerCol(bv, side), row>>]
            k == FirstMet(bv, row, side)
        IN /\ ret.val = TRUE =>
                  /\ corner = ChessPiece(op.color, Rook)
                  /\ \E c \in 0 .. bv.width - 1 :
                         /\ bv.squares[<<c, row>>] = ChessPiece(op.color, King)
                         /\ \A b \in Between(c, CornerCol(bv, side)) \cap (0 .. bv.width - 1) :
                                bv.squares[<<b, row>>] = None
           /\ (\/ corner # ChessPiece(op.color, Rook)
               \/ k < 0
               \/ bv.squares[<<k, row>>] # ChessPiece(op.color, King)) => ret.val = FALSE

----------------------------------------------------------------------------
(* Castling rights: properties of the flags along a game.                  *)

\* Between two boards, the King of the colour or the Rook of the colour on
\* the corner of the side left its square: it moved or was captured.
Disturbed(color, side, before, after) ==
    \/ \E sq \in DOMAIN before.squares :
           /\ before.squares[sq] = ChessPiece(color, King)
           /\ after.squares[sq] # before.squares[sq]
    \/ LET corner == <<CornerCol(before, side), castle_row(color, before)>> IN
           /\ before.squares[corner] = ChessPiece(color, Rook)
           /\ after.squares[corner] # before.squares[corner]

\* The condition of the castling block of get_all_moves: the flag of the
\* Game and the evaluator.
CastleAllowed(color, side) ==
    /\ rights[Flag(color, side)]
    /\ LET r == IF side = "long"
                    THEN can_castle_long(color, Snapshot(heap, board))
                    ELSE can_castle_short(color, Snapshot(heap, board))
       IN ~r.panic /\ r.val = TRUE

----------------------------------------------------------------------------
(* Castling: the lists of the classifier.                                  *)

\* All the preconditions of a castle of the colour on the side: the flag is
\* set, a Rook of the colour stands on the corner, the first piece met from
\* it is the King of the colour with two squares between them at least, the
\* King is not attacked where it stands, nor on the square it passes over,
\* nor on the square it lands on.
CastlePreconditions(color, side) ==
    LET bv == Snapshot(heap, board)
        row == castle_row(color, bv)
        k == FirstMet(bv, row, side)
    IN /\ rights[Flag(color, side)]
       /\ bv.squares[<<CornerCol(bv, side), row>>] = ChessPiece(color, Rook)
       /\ k >= 0
       /\ bv.squares[<<k, row>>] = ChessPiece(color, King)
       /\ {k + Toward(side), k + 2 * Toward(side)} \subseteq Between(k, CornerCol(bv, side))
       /\ ~KingAttacked(bv, color, NoMove)
       /\ \A step \in {1, 2} :
              ~KingAttacked(Relocated(bv, k, row, k + step * Toward(side)), color, NoMove)

\* C17: the list of the classifier holds a Castle whenever all the
\* preconditions of a castle hold for the side to move.
C17_CastleEnumerated ==
    (op.name = "get_game_state" /\ ~ret.panic) =>
        \A side \in Sides :
            CastlePreconditions(current_turn, side) =>
                \E i \in 1 .. Len(ret.moves) : ret.moves[i].kind = "Castle"

----------------------------------------------------------------------------
(* The attack detector: symmetry.                                          *)

\* The board mirrored top to bottom with the colours of the pieces swapped.
MirrorAndSwap(bv) ==
    [bv EXCEPT !.squares =
        [sq \in DOMAIN bv.squares |->
            LET found == bv.squares[<<sq[1], bv.height - 1 - sq[2]>>] IN
                IF found = None
                    THEN None
                    ELSE ChessPiece(IF found.color = White THEN Black ELSE White,
                                    found.piece_type)]]

\* A 2 x 2 board with a White King on (0, 1) and a Black Queen on (1, 0).
KingAndQueenBoard ==
    [sq \in DOMAIN generate_board(2, 2) |->
        CASE sq = <<0, 1>> -> ChessPiece(White, King)
          [] sq = <<1, 0>> -> ChessPiece(Black, Queen)
          [] OTHER -> None]

\* The board of the test idk: from_string(2, 2, " Q/K ") puts the Black
\* Queen on (1, 1) and the White King on (0, 0).
IdkBoard ==
    [sq \in DOMAIN generate_board(2, 2) |->
        CASE sq = <<0, 0>> -> ChessPiece(White, King)
          [] sq = <<1, 1>> -> ChessPiece(Black, Queen)
          [] OTHER -> None]

\* C19: is_color_in_check is symmetric under the swap of the colours on
\* the board mirrored top to bottom: the answer for a board and a colour is
\* the answer for the mirrored and swapped board and the opposite colour.
\* White is in check on the 2 x 2 board with its King on (0, 1) and a Black
\* Queen on (1, 0), and on the board of the test idk.
C19_CheckSymmetric ==
    op.name = "is_color_in_check" =>
        LET bv == Snapshot(heap, board) IN
            /\ ret.val = is_color_in_check(MirrorAndSwap(bv),
                             IF op.color = White THEN Black ELSE White, NoMove)
            /\ (bv.squares \in {KingAndQueenBoard, IdkBoard} /\ op.color = White)
                   => ret.val = TRUE

\* The detector answered true for White attacked by a Black pawn, whose
\* direction the mirror turns round.
C19_Witness ==
    /\ op.name = "is_color_in_check"
    /\ op.color = White
    /\ ret.val = TRUE
    /\ PieceCount(heap[1]) = 3
    /\ \A sq \in DOMAIN heap[1] :
           heap[1][sq] # None /\ heap[1][sq].color = Black => heap[1][sq].piece_type = Pawn

----------------------------------------------------------------------------
(* Square names: the two functions as inverses of each other.              *)

\* The number of letters of a name made of lower-case letters followed by
\* digits, one of each at least; 0 for any other text.
LowerCaseLetters(text) ==
    LET Splits == {k \in 1 .. Len(text) - 1 :
                      /\ \A i \in 1 .. k : text[i] \in 97 .. 122
                      /\ \A i \in k + 1 .. Len(text) : text[i] \in 48 .. 57}
    IN IF Splits = {} THEN 0 ELSE CHOOSE k \in Splits : TRUE

\* The number a run of digits denotes, and the number a run of letters
\* denotes in bijective base 26 (a = 1, z = 26, aa = 27).
RECURSIVE Denoted(_, _, _, _)
Denoted(text, from, to, base) ==
    IF to < from
        THEN 0
        ELSE Denoted(text, from, to - 1, base) * base
                 + (IF base = 10 THEN text[to] - 48 ELSE text[to] - 96)

ColumnPart(text) == Denoted(text, 1, LowerCaseLetters(text), 26)
RowPart(text) == Denoted(text, LowerCaseLetters(text) + 1, Len(text), 10)

\* A valid lower-case name with a row part of 1 at least.
ValidName(text) == LowerCaseLetters(text) > 0 /\ RowPart(text) >= 1

\* A valid name whose row part has no leading zero and whose column and
\* row are below the largest usize.
CanonicalName(text) ==
    /\ ValidName(text)
    /\ text[LowerCaseLetters(text) + 1] # 48
    /\ ColumnPart(text) <= UsizeMax
    /\ RowPart(text) <= UsizeMax

Generated == op.name = "get_square_name_from_row_and_col"
Parsed == op.name = "get_column_and_row_from_square_name"

\* The names of the columns 0, 25, 26, 27 and 18277 on the first row are
\* a1, z1, aa1, ab1 and zzz1.
NameExamples ==
    (Generated /\ op.input = "coordinate" /\ op.row = 0 /\ ~ret.panic) =>
        /\ op.col = 0 => ret.val = <<97, 49>>
        /\ op.col = 25 => ret.val = <<122, 49>>
        /\ op.col = 26 => ret.val = <<97, 97, 49>>
        /\ op.col = 27 => ret.val = <<97, 98, 49>>
        /\ op.col = 18277 => ret.val = <<122, 122, 122, 49>>

\* The two functions are inverses of each other for the coordinates and
\* the names that satisfy the conditions given.
InverseOn(coordinate_ok, name_ok) ==
    /\ (Generated /\ op.input = "coordinate" /\ coordinate_ok) => ~ret.panic
    /\ (Parsed /\ op.input = "coordinate" /\ coordinate_ok) =>
           /\ ~ret.panic
           /\ ret.status = "Ok"
           /\ ret.val = <<op.col, op.row>>
    /\ (Parsed /\ op.input = "name" /\ name_ok) =>
           /\ ~ret.panic
           /\ ret.status = "Ok"
           /\ ret.val = <<ColumnPart(op.text) - 1, RowPart(op.text) - 1>>
    /\ (Generated /\ op.input = "name" /\ name_ok) =>
           /\ ~ret.panic
           /\ ret.val = op.text
    /\ NameExamples

\* The two functions are inverses of each other where no arithmetic leaves
\* the range and no digit is dropped: for every column and row below the
\* largest usize, and for every valid lower-case name whose row part has no
\* leading zero and whose column and row are below the largest usize.
InverseOnCanonicalNames ==
    InverseOn(op.col < UsizeMax /\ op.row < UsizeMax, CanonicalName(op.text))

\* C20: the two functions are mutually inverse: for every column and row,
\* parsing the generated name yields the column and the row, and for every
\* valid lower-case name with a row part of 1 at least, generating the name
\* of the parsed coordinate yields the same name; the columns 0, 25, 26, 27
\* and 18277 are named a, z, aa, ab and zzz.
C20_MutuallyInverse ==
    InverseOn(TRUE, ValidName(op.text))

----------------------------------------------------------------------------
(* Square names: the answers of the parser.                                *)

\* The number of letters of a text made of letters of either case followed
\* by digits, one of each at least; 0 for any other text.
LettersThenDigits(text) ==
    LET Splits == {k \in 1 .. Len(text) - 1 :
                      /\ \A i \in 1 .. k : text[i] \in (65 .. 90) \cup (97 .. 122)
                      /\ \A i \in k + 1 .. Len(text) : text[i] \in 48 .. 57}
    IN IF Splits = {} THEN 0 ELSE CHOOSE k \in Splits : TRUE

\* The column a run of letters denotes, read without regard to case, and
\* the row the digits after it denote.
RECURSIVE ColumnOf(_, _)
ColumnOf(text, to) ==
    IF to = 0
        THEN 0
        ELSE ColumnOf(text, to - 1) * 26
                 + (IF text[to] >= 97 THEN text[to] - 96 ELSE text[to] - 64)

RowOf(text) == Denoted(text, LettersThenDigits(text) + 1, Len(text), 10)

\* C21: the parser answers Err("Invalid input") for every text that is not
\* a run of letters followed by a run of digits denoting a square, answers
\* Ok only with the zero-based column and row the text denotes, and never
\* panics or underflows on letters followed by digits, upper-case letters
\* and a row part of 0 included.
C21_ParserNeverPanics ==
    (Parsed /\ op.input = "name") =>
        LET letters == LettersThenDigits(op.text) IN
            /\ ~ret.panic
            /\ (letters = 0 \/ RowOf(op.text) = 0) => ret.status = "Err"
            /\ ret.status = "Ok" =>
                   /\ letters > 0
                   /\ ret.val = <<ColumnOf(op.text, letters) - 1, RowOf(op.text) - 1>>

----------------------------------------------------------------------------
(* The attack detector: its answer.                                        *)

\* C22: is_color_in_check answers true if and only if some piece of the
\* opposite colour has a pseudo-legal move on the board that captures the
\* King of the colour, whichever variant carries the capture: a Take, or a
\* Move with a taken piece.
C22_CheckIffKingCapturable ==
    op.name = "is_color_in_check" =>
        ret.val = KingAttacked(Snapshot(heap, board), op.color, NoMove)

----------------------------------------------------------------------------
(* The board: the effect of place_piece, remove_piece and check_space on   *)
(* a square of the board.                                                  *)

\* The step is called with a coordinate inside the board it is called on.
InBounds ==
    /\ Target(op'.on) # NoBoard
    /\ op'.col < Target(op'.on).width
    /\ op'.row < Target(op'.on).height

\* The step leaves the dimensions of its board and the occupant of every
\* square other than the one it is called on as they were.
OthersKept ==
    /\ TargetAfter.width = TargetBefore.width
    /\ TargetAfter.height = TargetBefore.height
    /\ DOMAIN TargetAfter.squares = DOMAIN TargetBefore.squares
    /\ \A sq \in DOMAIN TargetBefore.squares :
           sq # <<op'.col, op'.row>> => TargetAfter.squares[sq] = TargetBefore.squares[sq]

\* C23: for a coordinate inside the board, place_piece(p, c, r) makes
\* check_space(c, r) return p, whatever stood there; remove_piece(c, r)
\* returns the occupant, None for an empty square, and leaves the square
\* empty; check_space changes nothing; each of the three leaves the occupant
\* of every other square and the dimensions as they were.
C23_SquareOperations ==
    [][InBounds =>
          /\ Called({"place_piece"}) =>
                 /\ ~ret'.panic
                 /\ check_space(TargetAfter, op'.col, op'.row) = Ok(op'.piece)
                 /\ OthersKept
          /\ Called({"remove_piece"}) =>
                 /\ ~ret'.panic
                 /\ ret'.val = check_space(TargetBefore, op'.col, op'.row).val
                 /\ check_space(TargetAfter, op'.col, op'.row) = Ok(None)
                 /\ OthersKept
          /\ Called({"check_space"}) =>
                 /\ ~ret'.panic
                 /\ ret'.val = TargetBefore.squares[<<op'.col, op'.row>>]
                 /\ TargetAfter = TargetBefore]_vars

\* A piece has been removed from a square of the board, which is now empty,
\* while another square of the board holds a piece of the same kind.
C23_Witness ==
    /\ op.name = "remove_piece"
    /\ op.on = "board"
    /\ board # NoBoard
    /\ op.col < board.width
    /\ op.row < board.height
    /\ ret.val # None
    /\ heap[board.squares][<<op.col, op.row>>] = None
    /\ \E sq \in DOMAIN heap[board.squares] : heap[board.squares][sq] = ret.val

----------------------------------------------------------------------------
(* Diagrams: the board from_string makes of a text.                        *)

\* The piece glyphs are twelve consecutive code points: the White King,
\* Queen, Rook, Bishop, Knight and Pawn, then the Black ones.
GlyphOrder == <<King, Queen, Rook, Bishop, Knight, Pawn>>
PieceOfGlyph(char) ==
    IF char \in 9812 .. 9823
        THEN ChessPiece(IF char < 9818 THEN White ELSE Black,
                        GlyphOrder[((char - 9812) % 6) + 1])
        ELSE None

\* The characters of a text that are not line feeds, in order.
RECURSIVE WithoutNewlines(_)
WithoutNewlines(text) ==
    IF text = <<>> THEN <<>>
    ELSE (IF Head(text) = 10 THEN <<>> ELSE <<Head(text)>>)
             \o WithoutNewlines(Tail(text))

\* The board of the state is width x height and holds, for each index of the
\* characters, the piece of the character on column index mod width and row
\* height - 1 - (index div width).
Drawn(chars, width, height) ==
    /\ board # NoBoard
    /\ board.width = width
    /\ board.height = height
    /\ DOMAIN heap[board.squares] = (0 .. width - 1) \X (0 .. height - 1)
    /\ \A i \in 0 .. Len(chars) - 1 :
           heap[board.squares][<<i % width, height - 1 - (i \div width)>>]
               = PieceOfGlyph(chars[i + 1])

\* A text has been made a board.
FromStringCalled == op.name \in {"from_string", "chess_board_from_string"}

\* C24: from_string(width, height, s) returns Err and builds no board if and
\* only if s without its line feeds does not have exactly width * height
\* characters; otherwise the character at index i stands on column
\* i mod width and row height - 1 - (i div width) of the board returned, a
\* piece glyph as the piece of its colour and type and any other character
\* as an empty square; the standard diagram gives the position of
\* build_chess_board and of create_board_with_starting_position.
C24_FromStringDrawsTheDiagram ==
    FromStringCalled =>
        LET chars == WithoutNewlines(op.text)
            fits == Len(chars) = op.width * op.height
        IN /\ (ret.status = "Err" /\ board = NoBoard) <=> ~fits
           /\ (fits /\ chars # <<>>) =>
                  /\ ret.status = "Ok"
                  /\ ~ret.panic
                  /\ Drawn(chars, op.width, op.height)
           /\ (fits /\ op.text = StartingDiagram) =>
                  /\ heap[board.squares] = build_chess_board
                  /\ heap[board.squares] = create_board_with_starting_position

\* A text of two lines has been made a board that is not square, with a
\* piece on one square and another square empty.
C24_Witness ==
    /\ op.name = "from_string"
    /\ ret.status = "Ok"
    /\ board # NoBoard
    /\ board.width # board.height
    /\ \E i \in 2 .. Len(op.text) - 1 : op.text[i] = 10
    /\ \E sq \in DOMAIN heap[board.squares] : heap[board.squares][sq] # None
    /\ \E sq \in DOMAIN heap[board.squares] : heap[board.squares][sq] = None

----------------------------------------------------------------------------
(* The attack detector: the last move it is handed.                        *)

\* The candidates of the colour on a board with a last move: the
\* pseudo-legal moves of its pieces.
Candidates(bv, color, last_move) ==
    UNION {LET piece == bv.squares[sq]
               generated == get_legal_moves(piece, sq[1], sq[2], bv, last_move)
           IN {generated[i] : i \in 1 .. Len(generated)} :
           sq \in {x \in DOMAIN bv.squares :
                      bv.squares[x] # None /\ bv.squares[x].color = color}}

\* C25: the answer of is_color_in_check(board, color, last_move) is the one
\* it gives with no last move, whatever the last move, and so is the
\* verdict of the legality filter on every candidate of the colour when the
\* last move of the game is handed on with the board after the candidate.
C25_CheckIgnoresLastMove ==
    op.name = "is_color_in_check" =>
        LET bv == Snapshot(heap, board) IN
            /\ ret.val = is_color_in_check(bv, op.color, NoMove)
            /\ \A m \in Candidates(bv, op.color, op.last_move) :
                   keeps_king_safe(m, bv, op.color, op.last_move)
                       = keeps_king_safe(m, bv, op.color, NoMove)

\* The detector has been called for a colour whose King is on the board,
\* with a last move after which a Pawn of the other colour has an en
\* passant capture.
C25_Witness ==
    /\ op.name = "is_color_in_check"
    /\ op.last_move # NoMove
    /\ \E sq \in DOMAIN heap[board.squares] :
           heap[board.squares][sq] = ChessPiece(op.color, King)
    /\ \E m \in Candidates(Snapshot(heap, board), opposite_color(op.color),
                            op.last_move) : m.kind = "EnPassant"

----------------------------------------------------------------------------
(* Castling: the evaluators as total functions.                            *)

\* C26: can_castle_long and can_castle_short return a boolean, without a
\* panic and without an arithmetic underflow, for every board and every
\* position of the King on the back rank, a King on column 0 or column 1
\* and a simulation onto an occupied square included.
C26_EvaluatorsReturn ==
    Evaluated => (~ret.panic /\ ret.val \in BOOLEAN)

====
